---- MODULE Spec2Model ----
(***************************************************************************)
(* The per-channel state machine of the validating Lightning signer:       *)
(* lightning-signer-core/src/channel.rs (Channel, ChannelBase), with the   *)
(* policy validator and the EnforcementState setters it calls              *)
(* (crate::policy::validator, whose source is not part of src/ and is      *)
(* modelled from spec.md sections 3 and 4.3).                              *)
(***************************************************************************)
EXTENDS Integers, FiniteSets, Sequences, TLC

VARIABLES enforcement_state, last, repeated, closed_ok, holder_ok, slot, threads,
          node, follower

vars == <<enforcement_state, last, repeated, closed_ok, holder_ok, slot, threads,
          node, follower>>

(***************************************************************************)
(* Bounds.                                                                 *)
(***************************************************************************)
\* With all calls interleaved the commitment counters are followed up to
\* MaxCommitNum; with the calls of one side only, further (HolderDepth,
\* CounterpartyDepth).
MaxCommitNum == 2
\* TLC's integers are 32 bits wide, so the u64 of the source is modelled by
\* a word of WordBits bits; its arithmetic wraps at 2^WordBits as u64
\* arithmetic wraps at 2^64.
WordBits == 6

U64Modulus == 2 ^ WordBits
U64Max == U64Modulus - 1

\* crate::util::INITIAL_COMMITMENT_NUMBER = 2^48 - 1, a 48 bit number in a
\* 64 bit word; here the word is WordBits wide and the number two bits less.
CommitBits == WordBits - 2
INITIAL_COMMITMENT_NUMBER == 2 ^ CommitBits - 1

(***************************************************************************)
(* Values the host can supply.                                             *)
(***************************************************************************)
HolderDepth == MaxCommitNum + 2
CounterpartyDepth == MaxCommitNum + 1
\* commitment numbers: the ones around the counters, and the top of u64
CommitNums(cap) == (0 .. cap) \cup {U64Max - 1, U64Max}
\* counterparty per-commitment points; secret s derives to point s
Points == {1, 2}
Secrets == {1, 2}
\* (to_holder, to_counterparty) of a commitment transaction: two that the
\* fee range admits and one that it does not
ValuePairs == {<<1, 1>>, <<1, 2>>, <<2, 2>>}
FewValuePairs == {<<1, 1>>, <<2, 2>>}

\* ChannelSetup.channel_value_sat and the validator's fee range, in units
\* that keep the sums small.
channel_value_sat == 4
MIN_COMMIT_FEE == 1
MAX_COMMIT_FEE == 2

(***************************************************************************)
(* Option<T> is a set with at most one element.                            *)
(***************************************************************************)
None == {}
Some(x) == {x}

(***************************************************************************)
(* Status: Ok, a policy error, invalid_argument, an internal error; a      *)
(* "panic" is an abort of the call (unwrap, arithmetic overflow check).    *)
(***************************************************************************)
Res(es, rc, out) == [es |-> es, rc |-> rc, out |-> out]

\* Both are refusals by validation of what the host supplied (spec.md 7).
IsPolicyFailure(rc) == rc \in {"policy", "invalid_argument"}

(***************************************************************************)
(* Transactions and what is released to the caller.                        *)
(***************************************************************************)
NoTx == [type |-> "none", version |-> 0, commitment_number |-> 0, point |-> 0,
         to_holder |-> 0, to_counterparty |-> 0]

CommitmentTx(type, version, n, point, to_holder, to_counterparty) ==
    [type |-> type, version |-> version, commitment_number |-> n, point |-> point,
     to_holder |-> to_holder, to_counterparty |-> to_counterparty]

Signature(tx) == [kind |-> "signature", num |-> tx.commitment_number, body |-> tx]
SecretKey(index) == [kind |-> "secret", num |-> index, body |-> NoTx]
PublicKey(index) == [kind |-> "point", num |-> index, body |-> NoTx]

\* EnforcementState::new(0), persist_json.rs:75 and spec.md section 3
EnforcementState_new ==
    [next_holder_commit_num |-> 0,
     next_counterparty_commit_num |-> 0,
     next_counterparty_revoke_num |-> 0,
     current_counterparty_point |-> None,
     previous_counterparty_point |-> None,
     current_holder_commit_info |-> None,
     previous_holder_commit_info |-> None,
     current_counterparty_commit_info |-> None,
     previous_counterparty_commit_info |-> None,
     mutual_close_signed |-> FALSE]

(***************************************************************************)
(* u64 arithmetic.  An overflowing + or - aborts the call in a build with  *)
(* overflow checks and wraps in a build without them.                      *)
(***************************************************************************)
WrapU64(x) == x % U64Modulus
OverflowsU64(x) == x < 0 \/ x > U64Max

(***************************************************************************)
(* Keys.  keys.get_per_commitment_point(idx) and                           *)
(* keys.release_commitment_secret(idx) read the CommitBits low bits of the *)
(* backwards-counting index idx.                                           *)
(***************************************************************************)
keys_get_per_commitment_point(idx) == PublicKey(idx % (2 ^ CommitBits))
keys_release_commitment_secret(idx) == SecretKey(idx % (2 ^ CommitBits))

(***************************************************************************)
(* crate::policy::validator: the validator and the EnforcementState        *)
(* setters, from spec.md 3 and 4.3.                                        *)
(***************************************************************************)
\* CommitmentInfo2; the pubkeys of the commitment are derived from one
\* per-commitment point, keys_from names the side and the point.
CommitmentInfo2(is_counterparty_broadcaster, to_broadcaster, to_countersigner, keys_from) ==
    [is_counterparty_broadcaster |-> is_counterparty_broadcaster,
     to_broadcaster_value_sat |-> to_broadcaster,
     to_countersigner_value_sat |-> to_countersigner,
     keys_from |-> keys_from]

\* validate_channel_open(setup): the one setup of the model is within bounds
validate_channel_open == channel_value_sat > 0

\* make_info: the semantic view of a raw commitment transaction; fails on a
\* version other than 2
make_info(is_counterparty, tx) ==
    IF tx.version # 2
    THEN [rc |-> "policy", to_broadcaster_value_sat |-> 0, to_countersigner_value_sat |-> 0]
    ELSE [rc |-> "ok",
          to_broadcaster_value_sat |->
              IF is_counterparty THEN tx.to_counterparty ELSE tx.to_holder,
          to_countersigner_value_sat |->
              IF is_counterparty THEN tx.to_holder ELSE tx.to_counterparty]

\* Value conservation (policy 2)
ValueConserved(info2) ==
    LET sum == info2.to_broadcaster_value_sat + info2.to_countersigner_value_sat
    IN  /\ sum <= channel_value_sat
        /\ channel_value_sat - sum >= MIN_COMMIT_FEE
        /\ channel_value_sat - sum <= MAX_COMMIT_FEE

\* validate_commitment_tx(state, commit_num, per_commitment_point, setup,
\* vstate, info2): TRUE iff the commitment passes.  A counterparty
\* commitment is the current pending one again (same point, same info) or
\* the next one, and the next one only once the one before the pending one
\* is revoked; after a mutual close no commitment passes.  The holder
\* sequence is checked where it advances, in set_next_holder_commit_num:
\* this validator also serves sign_holder_commitment_tx, for the current
\* and the previous holder commitment.
validate_commitment_tx(es, commit_num, per_commitment_point, info2) ==
    /\ ~es.mutual_close_signed
    /\ ValueConserved(info2)
    /\ info2.is_counterparty_broadcaster =>
         \/ /\ commit_num + 1 = es.next_counterparty_commit_num
            /\ es.current_counterparty_point = Some(per_commitment_point)
            /\ es.current_counterparty_commit_info = Some(info2)
         \/ /\ commit_num = es.next_counterparty_commit_num
            /\ commit_num <= es.next_counterparty_revoke_num + 1

\* validate_holder_commitment_state(state)
validate_holder_commitment_state(es) == ~es.mutual_close_signed

\* validate_counterparty_revocation(state, revoke_num, old_secret): secret s
\* derives to point s
validate_counterparty_revocation_policy(es, revoke_num, old_secret) ==
    /\ revoke_num + 2 = es.next_counterparty_commit_num
    /\ es.previous_counterparty_point = Some(old_secret)

\* validate_sign_holder_commitment_tx(state, commit_num)
validate_sign_holder_commitment_tx(es, commit_num) ==
    \/ commit_num + 1 = es.next_holder_commit_num
    \/ commit_num + 2 = es.next_holder_commit_num

\* EnforcementState::set_next_counterparty_commit_num(num, point, info)
set_next_counterparty_commit_num(es, num, current_point, info2) ==
    IF num = es.next_counterparty_commit_num
    THEN Res([es EXCEPT !.current_counterparty_commit_info = Some(info2)], "ok", {})
    ELSE IF num = es.next_counterparty_commit_num + 1
    THEN Res([es EXCEPT !.next_counterparty_commit_num = num,
                        !.previous_counterparty_point = es.current_counterparty_point,
                        !.previous_counterparty_commit_info = es.current_counterparty_commit_info,
                        !.current_counterparty_point = Some(current_point),
                        !.current_counterparty_commit_info = Some(info2)], "ok", {})
    ELSE Res(es, "policy", {})

\* EnforcementState::set_next_holder_commit_num(num, info)
set_next_holder_commit_num(es, num, info2) ==
    IF num = es.next_holder_commit_num + 1
    THEN Res([es EXCEPT !.next_holder_commit_num = num,
                        !.previous_holder_commit_info = es.current_holder_commit_info,
                        !.current_holder_commit_info = Some(info2)], "ok", {})
    ELSE Res(es, "policy", {})

\* EnforcementState::set_next_counterparty_revoke_num(num)
set_next_counterparty_revoke_num(es, num) ==
    IF num + 1 = es.next_counterparty_commit_num
    THEN Res([es EXCEPT !.next_counterparty_revoke_num = num], "ok", {})
    ELSE Res(es, "policy", {})

(***************************************************************************)
(* Channel (channel.rs).  Each operation is a function of the              *)
(* EnforcementState, the arguments of the call and what the persister      *)
(* answers (persist_ok), and yields the EnforcementState after the call,   *)
(* the Status and what is returned to the caller.                          *)
(***************************************************************************)
\* persist as it would be with the result of update_channel dropped
persist_ignoring_failure(es, persist_ok, out) == Res(es, "ok", out)

\* Channel::persist: update_channel, its error mapped to an internal error
persist(es, persist_ok, out) ==
    IF persist_ok THEN Res(es, "ok", out) ELSE Res(es, "internal", {})

\* ChannelBase::get_per_commitment_point for Channel
get_per_commitment_point(es, commitment_number) ==
    IF commitment_number > es.next_holder_commit_num
    THEN Res(es, "policy", {})
    ELSE Res(es, "ok",
             {keys_get_per_commitment_point(INITIAL_COMMITMENT_NUMBER - commitment_number)})

\* get_per_commitment_secret as it would be with commitment_number + 1 in
\* its check
get_per_commitment_secret_of_latest(es, commitment_number, overflow_checks) ==
    IF overflow_checks /\ OverflowsU64(commitment_number + 1)
    THEN Res(es, "panic", {})
    ELSE IF WrapU64(commitment_number + 1) > es.next_holder_commit_num
    THEN Res(es, "policy", {})
    ELSE Res(es, "ok",
             {keys_release_commitment_secret(
                  WrapU64(INITIAL_COMMITMENT_NUMBER - commitment_number))})

\* ChannelBase::get_per_commitment_secret for Channel.  commitment_number + 2
\* and INITIAL_COMMITMENT_NUMBER - commitment_number are u64 arithmetic.
get_per_commitment_secret(es, commitment_number, overflow_checks) ==
    IF overflow_checks /\ OverflowsU64(commitment_number + 2)
    THEN Res(es, "panic", {})
    ELSE IF WrapU64(commitment_number + 2) > es.next_holder_commit_num
    THEN Res(es, "policy", {})
    ELSE IF overflow_checks /\ OverflowsU64(INITIAL_COMMITMENT_NUMBER - commitment_number)
    THEN Res(es, "panic", {})
    ELSE Res(es, "ok",
             {keys_release_commitment_secret(
                  WrapU64(INITIAL_COMMITMENT_NUMBER - commitment_number))})

\* Channel::build_counterparty_commitment_info
build_counterparty_commitment_info(point, to_holder_value_sat, to_counterparty_value_sat) ==
    CommitmentInfo2(TRUE, to_counterparty_value_sat, to_holder_value_sat,
                    <<"counterparty", point>>)

\* Channel::build_holder_commitment_info
build_holder_commitment_info(point, to_holder_value_sat, to_counterparty_value_sat) ==
    CommitmentInfo2(FALSE, to_holder_value_sat, to_counterparty_value_sat,
                    <<"holder", point.num>>)

\* Channel::make_counterparty_commitment_tx: the transaction rebuilt from the
\* semantic inputs; version 2, the commitment number in locktime and sequence
make_counterparty_commitment_tx(point, commitment_number, to_holder_value_sat, to_counterparty_value_sat) ==
    CommitmentTx("counterparty", 2,
                 INITIAL_COMMITMENT_NUMBER - (INITIAL_COMMITMENT_NUMBER - commitment_number),
                 point, to_holder_value_sat, to_counterparty_value_sat)

\* Channel::make_holder_commitment_tx, after its get_per_commitment_point
make_holder_commitment_tx(point, commitment_number, to_holder_value_sat, to_counterparty_value_sat) ==
    CommitmentTx("holder", 2,
                 INITIAL_COMMITMENT_NUMBER - (INITIAL_COMMITMENT_NUMBER - commitment_number),
                 point.num, to_holder_value_sat, to_counterparty_value_sat)

\* sign_counterparty_commitment_tx as it would be without its call of
\* validate_commitment_tx
sign_counterparty_commitment_tx_unvalidated(es, tx, witscripts_match, point, commitment_number, persist_ok) ==
    IF ~witscripts_match THEN Res(es, "invalid_argument", {})
    ELSE IF ~validate_channel_open THEN Res(es, "policy", {})
    ELSE LET info == make_info(TRUE, tx) IN
    IF info.rc # "ok" THEN Res(es, "policy", {})
    ELSE LET info2 == build_counterparty_commitment_info(
                          point, info.to_countersigner_value_sat,
                          info.to_broadcaster_value_sat) IN
    LET recomposed_tx == make_counterparty_commitment_tx(
                             point, commitment_number,
                             info.to_countersigner_value_sat,
                             info.to_broadcaster_value_sat) IN
    IF recomposed_tx # tx THEN Res(es, "policy", {})
    ELSE LET commit_num == recomposed_tx.commitment_number
             set == set_next_counterparty_commit_num(
                        es, commit_num + 1, recomposed_tx.point, info2) IN
    IF set.rc # "ok" THEN Res(es, "policy", {})
    ELSE persist(set.es, persist_ok, {Signature(recomposed_tx)})

\* sign_counterparty_commitment_tx as it would be with commit_num, not
\* commit_num + 1, handed to set_next_counterparty_commit_num
sign_counterparty_commitment_tx_same_num(es, tx, witscripts_match, point, commitment_number, persist_ok) ==
    IF ~witscripts_match THEN Res(es, "invalid_argument", {})
    ELSE IF ~validate_channel_open THEN Res(es, "policy", {})
    ELSE LET info == make_info(TRUE, tx) IN
    IF info.rc # "ok" THEN Res(es, "policy", {})
    ELSE LET info2 == build_counterparty_commitment_info(
                          point, info.to_countersigner_value_sat,
                          info.to_broadcaster_value_sat) IN
    IF ~validate_commitment_tx(es, commitment_number, point, info2)
    THEN Res(es, "policy", {})
    ELSE LET recomposed_tx == make_counterparty_commitment_tx(
                             point, commitment_number,
                             info.to_countersigner_value_sat,
                             info.to_broadcaster_value_sat) IN
    IF recomposed_tx # tx THEN Res(es, "policy", {})
    ELSE LET commit_num == recomposed_tx.commitment_number
             set == set_next_counterparty_commit_num(
                        es, commit_num, recomposed_tx.point, info2) IN
    IF set.rc # "ok" THEN Res(es, "policy", {})
    ELSE persist(set.es, persist_ok, {Signature(recomposed_tx)})

\* sign_counterparty_commitment_tx as it would be with the number handed to
\* set_next_counterparty_commit_num taken from the state, not the transaction
sign_counterparty_commitment_tx_from_state(es, tx, witscripts_match, point, commitment_number, persist_ok) ==
    IF ~witscripts_match THEN Res(es, "invalid_argument", {})
    ELSE IF ~validate_channel_open THEN Res(es, "policy", {})
    ELSE LET info == make_info(TRUE, tx) IN
    IF info.rc # "ok" THEN Res(es, "policy", {})
    ELSE LET info2 == build_counterparty_commitment_info(
                          point, info.to_countersigner_value_sat,
                          info.to_broadcaster_value_sat) IN
    IF ~validate_commitment_tx(es, commitment_number, point, info2)
    THEN Res(es, "policy", {})
    ELSE LET recomposed_tx == make_counterparty_commitment_tx(
                             point, commitment_number,
                             info.to_countersigner_value_sat,
                             info.to_broadcaster_value_sat) IN
    IF recomposed_tx # tx THEN Res(es, "policy", {})
    ELSE LET commit_num == recomposed_tx.commitment_number
             set == set_next_counterparty_commit_num(
                        es, es.next_counterparty_commit_num + 1, recomposed_tx.point, info2) IN
    IF set.rc # "ok" THEN Res(es, "policy", {})
    ELSE persist(set.es, persist_ok, {Signature(recomposed_tx)})

\* sign_counterparty_commitment_tx as it would be without the comparison of
\* the rebuilt transaction with the raw one
sign_counterparty_commitment_tx_uncompared(es, tx, witscripts_match, point, commitment_number, persist_ok) ==
    IF ~witscripts_match THEN Res(es, "invalid_argument", {})
    ELSE IF ~validate_channel_open THEN Res(es, "policy", {})
    ELSE LET info == make_info(TRUE, tx) IN
    IF info.rc # "ok" THEN Res(es, "policy", {})
    ELSE LET info2 == build_counterparty_commitment_info(
                          point, info.to_countersigner_value_sat,
                          info.to_broadcaster_value_sat) IN
    IF ~validate_commitment_tx(es, commitment_number, point, info2)
    THEN Res(es, "policy", {})
    ELSE LET recomposed_tx == make_counterparty_commitment_tx(
                                  point, commitment_number,
                                  info.to_countersigner_value_sat,
                                  info.to_broadcaster_value_sat)
             commit_num == recomposed_tx.commitment_number
             set == set_next_counterparty_commit_num(
                        es, commit_num + 1, recomposed_tx.point, info2) IN
    IF set.rc # "ok" THEN Res(es, "policy", {})
    ELSE persist(set.es, persist_ok, {Signature(recomposed_tx)})

\* Channel::sign_counterparty_commitment_tx
sign_counterparty_commitment_tx(es, tx, witscripts_match, point, commitment_number, persist_ok) ==
    IF ~witscripts_match THEN Res(es, "invalid_argument", {})
    ELSE IF ~validate_channel_open THEN Res(es, "policy", {})
    ELSE LET info == make_info(TRUE, tx) IN
    IF info.rc # "ok" THEN Res(es, "policy", {})
    ELSE LET info2 == build_counterparty_commitment_info(
                          point, info.to_countersigner_value_sat,
                          info.to_broadcaster_value_sat) IN
    IF ~validate_commitment_tx(es, commitment_number, point, info2)
    THEN Res(es, "policy", {})
    ELSE LET recomposed_tx == make_counterparty_commitment_tx(
                                  point, commitment_number,
                                  info.to_countersigner_value_sat,
                                  info.to_broadcaster_value_sat) IN
    IF recomposed_tx # tx THEN Res(es, "policy", {})
    ELSE LET commit_num == recomposed_tx.commitment_number
             set == set_next_counterparty_commit_num(
                        es, commit_num + 1, recomposed_tx.point, info2) IN
    IF set.rc # "ok" THEN Res(es, "policy", {})
    ELSE persist(set.es, persist_ok, {Signature(recomposed_tx)})

\* Channel::make_recomposed_holder_commitment_tx and
\* Channel::make_recomposed_holder_commitment_tx_common: the rebuilt
\* transaction and its CommitmentInfo2, or the Status that refuses
make_recomposed_holder_commitment_tx(es, tx, witscripts_match, commitment_number) ==
    LET refuse(rc) == [rc |-> rc, tx |-> NoTx, info2 |-> None] IN
    IF ~witscripts_match THEN refuse("invalid_argument")
    ELSE IF ~validate_channel_open THEN refuse("policy")
    ELSE LET info == make_info(FALSE, tx) IN
    IF info.rc # "ok" THEN refuse("policy")
    ELSE LET pt == get_per_commitment_point(es, commitment_number) IN
    IF pt.rc # "ok" THEN refuse(pt.rc)
    ELSE LET commitment_point == CHOOSE k \in pt.out : TRUE
             info2 == build_holder_commitment_info(
                          commitment_point, info.to_broadcaster_value_sat,
                          info.to_countersigner_value_sat) IN
    IF ~validate_commitment_tx(es, commitment_number, commitment_point, info2)
    THEN refuse("policy")
    ELSE LET recomposed_tx == make_holder_commitment_tx(
                                  commitment_point, commitment_number,
                                  info.to_broadcaster_value_sat,
                                  info.to_countersigner_value_sat) IN
    IF recomposed_tx # tx THEN refuse("policy")
    ELSE [rc |-> "ok", tx |-> recomposed_tx, info2 |-> Some(info2)]

\* validate_holder_commitment_tx as it would be with the state advanced
\* before the counterparty's signatures are verified
validate_holder_commitment_tx_set_first(es, tx, witscripts_match, commitment_number, sig_ok, persist_ok) ==
    IF ~validate_holder_commitment_state(es) THEN Res(es, "policy", {})
    ELSE LET r == make_recomposed_holder_commitment_tx(
                      es, tx, witscripts_match, commitment_number) IN
    IF r.rc # "ok" THEN Res(es, r.rc, {})
    ELSE LET info2 == CHOOSE i \in r.info2 : TRUE
             set == set_next_holder_commit_num(es, commitment_number + 1, info2) IN
    IF set.rc # "ok" THEN Res(es, "policy", {})
    ELSE IF ~sig_ok THEN Res(set.es, "policy", {})
    ELSE LET next_holder_commitment_point ==
                 get_per_commitment_point(set.es, commitment_number + 1).out
             maybe_old_secret ==
                 IF commitment_number >= 1
                 THEN get_per_commitment_secret(set.es, commitment_number - 1, FALSE).out
                 ELSE None IN
    persist(set.es, persist_ok, next_holder_commitment_point \cup maybe_old_secret)

\* validate_holder_commitment_tx as it would be returning the point and the
\* secret of one commitment number less
validate_holder_commitment_tx_one_less(es, tx, witscripts_match, commitment_number, sig_ok, persist_ok) ==
    IF ~validate_holder_commitment_state(es) THEN Res(es, "policy", {})
    ELSE LET r == make_recomposed_holder_commitment_tx(
                      es, tx, witscripts_match, commitment_number) IN
    IF r.rc # "ok" THEN Res(es, r.rc, {})
    ELSE IF ~sig_ok THEN Res(es, "policy", {})
    ELSE LET info2 == CHOOSE i \in r.info2 : TRUE
             set == set_next_holder_commit_num(es, commitment_number + 1, info2) IN
    IF set.rc # "ok" THEN Res(es, "policy", {})
    ELSE LET next_holder_commitment_point ==
                 get_per_commitment_point(set.es, commitment_number).out
             maybe_old_secret ==
                 IF commitment_number >= 2
                 THEN get_per_commitment_secret(set.es, commitment_number - 2, FALSE).out
                 ELSE None IN
    persist(set.es, persist_ok, next_holder_commitment_point \cup maybe_old_secret)

\* Channel::validate_holder_commitment_tx; sig_ok: the counterparty's
\* signatures verify on the rebuilt transaction
validate_holder_commitment_tx(es, tx, witscripts_match, commitment_number, sig_ok, persist_ok) ==
    IF ~validate_holder_commitment_state(es) THEN Res(es, "policy", {})
    ELSE LET r == make_recomposed_holder_commitment_tx(
                      es, tx, witscripts_match, commitment_number) IN
    IF r.rc # "ok" THEN Res(es, r.rc, {})
    ELSE IF ~sig_ok THEN Res(es, "policy", {})
    ELSE LET info2 == CHOOSE i \in r.info2 : TRUE
             set == set_next_holder_commit_num(es, commitment_number + 1, info2) IN
    IF set.rc # "ok" THEN Res(es, "policy", {})
    ELSE LET next_holder_commitment_point ==
                 get_per_commitment_point(set.es, commitment_number + 1).out
             maybe_old_secret ==
                 IF commitment_number >= 1
                 THEN get_per_commitment_secret(set.es, commitment_number - 1, FALSE).out
                 ELSE None IN
    persist(set.es, persist_ok, next_holder_commitment_point \cup maybe_old_secret)

\* Channel::validate_counterparty_revocation
validate_counterparty_revocation(es, revoke_num, old_secret, persist_ok) ==
    IF ~validate_counterparty_revocation_policy(es, revoke_num, old_secret)
    THEN Res(es, "policy", {})
    ELSE LET set == set_next_counterparty_revoke_num(es, revoke_num + 1) IN
    IF set.rc # "ok" THEN Res(es, "policy", {})
    ELSE persist(set.es, persist_ok, {})

\* sign_holder_commitment_tx as it would be without its call of
\* validate_sign_holder_commitment_tx
sign_holder_commitment_tx_any_num(es, tx, witscripts_match, commitment_number, persist_ok) ==
    LET r == make_recomposed_holder_commitment_tx(
                 es, tx, witscripts_match, commitment_number) IN
    IF r.rc # "ok" THEN Res(es, r.rc, {})
    ELSE persist(es, persist_ok, {Signature(r.tx)})

\* Channel::sign_holder_commitment_tx
sign_holder_commitment_tx(es, tx, witscripts_match, commitment_number, persist_ok) ==
    IF ~validate_sign_holder_commitment_tx(es, commitment_number)
    THEN Res(es, "policy", {})
    ELSE LET r == make_recomposed_holder_commitment_tx(
                      es, tx, witscripts_match, commitment_number) IN
    IF r.rc # "ok" THEN Res(es, r.rc, {})
    ELSE persist(es, persist_ok, {Signature(r.tx)})

\* sign_mutual_close_tx as it would be without setting mutual_close_signed
sign_mutual_close_tx_unlatched(es, tx, persist_ok) ==
    persist(es, persist_ok, {Signature(tx)})

\* Channel::sign_mutual_close_tx: signs the transaction it is given
sign_mutual_close_tx(es, tx, persist_ok) ==
    persist([es EXCEPT !.mutual_close_signed = TRUE], persist_ok, {Signature(tx)})

(***************************************************************************)
(* The signing entry points that rebuild the transaction from the semantic *)
(* inputs ("phase 2"), and the sweeps.                                      *)
(***************************************************************************)
\* build_close_tx (crate::tx::tx): the close transaction of the channel's
\* funding outpoint and shutdown scripts for the two values
build_close_tx(to_holder_value_sat, to_counterparty_value_sat) ==
    CommitmentTx("close", 2, 0, 0, to_holder_value_sat, to_counterparty_value_sat)

\* A sweep transaction: its version and the amount of the input it spends
SweepTx(version, amount_sat) == CommitmentTx("sweep", version, 0, 0, amount_sat, 0)

\* Channel::sign_counterparty_commitment_tx_phase2.
\* INITIAL_COMMITMENT_NUMBER - commitment_number is u64 arithmetic and the
\* transaction carries the number in CommitBits bits.
sign_counterparty_commitment_tx_phase2(es, point, commitment_number, to_holder_value_sat, to_counterparty_value_sat, overflow_checks, persist_ok) ==
    IF overflow_checks /\ OverflowsU64(INITIAL_COMMITMENT_NUMBER - commitment_number)
    THEN Res(es, "panic", {})
    ELSE LET commitment_tx == make_counterparty_commitment_tx(
                                  point, commitment_number % (2 ^ CommitBits),
                                  to_holder_value_sat, to_counterparty_value_sat) IN
    persist(es, persist_ok, {Signature(commitment_tx)})

\* sign_holder_commitment_tx_phase2 as it would be if it advanced
\* next_holder_commit_num
sign_holder_commitment_tx_phase2_advancing(es, commitment_number, to_holder_value_sat, to_counterparty_value_sat, persist_ok) ==
    LET pt == get_per_commitment_point(es, commitment_number) IN
    IF pt.rc # "ok" THEN Res(es, pt.rc, {})
    ELSE LET per_commitment_point == CHOOSE k \in pt.out : TRUE
             commitment_tx == make_holder_commitment_tx(
                                  per_commitment_point, commitment_number,
                                  to_holder_value_sat, to_counterparty_value_sat) IN
    persist([es EXCEPT !.next_holder_commit_num = commitment_number + 1],
            persist_ok, {Signature(commitment_tx)})

\* Channel::sign_holder_commitment_tx_phase2
sign_holder_commitment_tx_phase2(es, commitment_number, to_holder_value_sat, to_counterparty_value_sat, persist_ok) ==
    LET pt == get_per_commitment_point(es, commitment_number) IN
    IF pt.rc # "ok" THEN Res(es, pt.rc, {})
    ELSE LET per_commitment_point == CHOOSE k \in pt.out : TRUE
             commitment_tx == make_holder_commitment_tx(
                                  per_commitment_point, commitment_number,
                                  to_holder_value_sat, to_counterparty_value_sat) IN
    persist(es, persist_ok, {Signature(commitment_tx)})

\* Channel::sign_mutual_close_tx_phase2
sign_mutual_close_tx_phase2(es, to_holder_value_sat, to_counterparty_value_sat, persist_ok) ==
    LET tx == build_close_tx(to_holder_value_sat, to_counterparty_value_sat) IN
    persist(es, persist_ok, {Signature(tx)})

\* Channel::sign_delayed_sweep
sign_delayed_sweep(es, tx, commitment_number, persist_ok) ==
    LET pt == get_per_commitment_point(es, commitment_number) IN
    IF pt.rc # "ok" THEN Res(es, pt.rc, {})
    ELSE persist(es, persist_ok, {Signature(tx)})

\* Channel::sign_counterparty_htlc_sweep
sign_counterparty_htlc_sweep(es, tx, remote_per_commitment_point, persist_ok) ==
    persist(es, persist_ok, {Signature(tx)})

\* Channel::sign_justice_sweep
sign_justice_sweep(es, tx, revocation_secret, persist_ok) ==
    persist(es, persist_ok, {Signature(tx)})

(***************************************************************************)
(* The state machine: a Ready channel and the calls of the host, in any    *)
(* order and with any arguments; the persister answers each                *)
(* update_channel with success or failure.                                 *)
(*   last       the last call: its name, commitment number, Status, what  *)
(*              it returned to the caller, whether it reached              *)
(*              update_channel and update_channel failed, and whether the  *)
(*              raw commitment transaction it was given differs from the   *)
(*              one rebuilt from the semantic inputs, and the old_secret   *)
(*              it was given (0: none)                                     *)
(*   repeated   the last call was sign_counterparty_commitment_tx with the *)
(*              arguments of the successful sign_counterparty_commitment_tx *)
(*              right before it                                            *)
(*   closed_ok  a sign_mutual_close_tx has succeeded                       *)
(*   holder_ok  the commitment number of the last successful               *)
(*              validate_holder_commitment_tx, -1 before the first         *)
(*   slot       the ChannelSlot of the channel: "none" before new_channel, *)
(*              "stub" (ChannelSlot::Stub), "ready" (ChannelSlot::Ready)   *)
(*   threads    the callers of the channel: who holds the mutex of the     *)
(*              slot, where each caller is in its call, and the            *)
(*              EnforcementState left by the last call that returned       *)
(*   node       the Node that owns the channel: its allowlist, its         *)
(*              persister's store                                          *)
(*   follower   the ChainFollower of the Node, its block source and the    *)
(*              ChainTracker it feeds                                      *)
(***************************************************************************)
\* The Node of the channel, when the calls on the channel alone are followed
NoNode == [allowlist |-> {}]

(***************************************************************************)
(* KVJsonPersister.  The channel bucket is a set of items, one for a key   *)
(* at most; the key of a channel is its id0 (under the id of the node).    *)
(***************************************************************************)
\* InMemorySigner::new(.., channel_value_sat, ..) on the keys derived from
\* the channel nonce
InMemorySigner(nonce, value_sat) ==
    [nonce |-> nonce, channel_value_sat |-> value_sat]

\* The ChannelSetup of the channel; its channel_value_sat is what the model
\* reads of it
ChannelSetup == [channel_value_sat |-> channel_value_sat]

\* The ChannelStub of the channel: "Incomplete, channel_value_sat is
\* placeholder"
ChannelStub ==
    [nonce |-> "nonce", keys |-> InMemorySigner("nonce", 0), id0 |-> "id0"]

\* ChannelStub::channel_keys_with_channel_value
channel_keys_with_channel_value(stub, value_sat) ==
    InMemorySigner(stub.keys.nonce, value_sat)

\* The Channel that ready_channel makes of the stub, with its EnforcementState
Channel(es) ==
    [nonce |-> ChannelStub.nonce,
     keys |-> channel_keys_with_channel_value(ChannelStub, ChannelSetup.channel_value_sat),
     enforcement_state |-> es,
     setup |-> ChannelSetup,
     id0 |-> ChannelStub.id0,
     id |-> Some("id1")]

ChannelEntry(nonce, channel_value_satoshis, channel_setup, id, es) ==
    [nonce |-> nonce, channel_value_satoshis |-> channel_value_satoshis,
     channel_setup |-> channel_setup, id |-> id, enforcement_state |-> es]

\* txn.get(id) and txn.set(id, entry) on the channel bucket
txn_get(store, id) == {item \in store : item.key = id}
txn_set(store, id, entry) ==
    (store \ txn_get(store, id)) \cup {[key |-> id, entry |-> entry]}

\* KVJsonPersister::new_channel: the transaction aborts with "already
\* exists" for an id that has an entry, and the expect on it aborts the call
KVJsonPersister_new_channel(store, stub) ==
    IF txn_get(store, stub.id0) # None
    THEN [rv |-> "panic", store |-> store]
    ELSE [rv |-> "ok",
          store |-> txn_set(store, stub.id0,
                            ChannelEntry(stub.nonce, 0, None, None, EnforcementState_new))]

\* update_channel as it would be if it wrote the entry of a new channel
KVJsonPersister_update_channel_as_new(store, channel) ==
    IF txn_get(store, channel.id0) = None
    THEN [rv |-> "panic", store |-> store]
    ELSE [rv |-> "ok",
          store |-> txn_set(store, channel.id0,
                            ChannelEntry(channel.nonce, 0, None, None,
                                         EnforcementState_new))]

\* KVJsonPersister::update_channel: the transaction aborts with "not found"
\* for an id that has no entry, and the expect on it aborts the call
KVJsonPersister_update_channel(store, channel) ==
    IF txn_get(store, channel.id0) = None
    THEN [rv |-> "panic", store |-> store]
    ELSE [rv |-> "ok",
          store |-> txn_set(store, channel.id0,
                            ChannelEntry(channel.nonce, channel.setup.channel_value_sat,
                                         Some(channel.setup), channel.id,
                                         channel.enforcement_state))]

\* KVJsonPersister::get_node_channels: the (channel id, entry) pairs of the
\* bucket
KVJsonPersister_get_node_channels(store) == store

\* Node::restore_nodes for one pair of get_node_channels (spec.md 4.6): an
\* entry without a setup is restored as a Stub, one with a setup as a Ready
\* channel, the keys derived from the nonce and the channel value of the
\* entry
restore_channel(item) ==
    [id0 |-> item.key,
     slot |-> IF item.entry.channel_setup = None THEN "stub" ELSE "ready",
     keys |-> InMemorySigner(item.entry.nonce, item.entry.channel_value_satoshis),
     setup |-> item.entry.channel_setup,
     enforcement_state |-> item.entry.enforcement_state]

\* The methods of Channel that end with self.persist()
PersistingOps ==
    {"sign_counterparty_commitment_tx", "sign_counterparty_commitment_tx_phase2",
     "validate_holder_commitment_tx", "validate_counterparty_revocation",
     "sign_holder_commitment_tx", "sign_holder_commitment_tx_phase2",
     "sign_mutual_close_tx", "sign_mutual_close_tx_phase2",
     "sign_delayed_sweep", "sign_counterparty_htlc_sweep", "sign_justice_sweep"}

\* The Node after a call on its channel that returned rc and left es: where
\* the store of the persister is followed, it has what the call wrote, and
\* what is noted of an earlier call is forgotten
NodeAfter(nd, op, rc, es) ==
    IF "store" \notin DOMAIN nd THEN nd
    ELSE LET base == [nd EXCEPT !.restored = {}] IN
    IF op = "new_channel" /\ rc = "ok"
    THEN [base EXCEPT !.store = KVJsonPersister_new_channel(nd.store, ChannelStub).store]
    ELSE IF op \in PersistingOps /\ rc = "ok"
    THEN [base EXCEPT !.store = KVJsonPersister_update_channel(nd.store, Channel(es)).store]
    ELSE base

\* The holder commitment numbers whose per-commitment secret a call of op on
\* n that returned rc has handed to the caller: get_per_commitment_secret
\* the one of n, validate_holder_commitment_tx the one of n - 1
ReleasedBy(op, n, rc) ==
    IF rc # "ok" THEN {}
    ELSE IF op = "get_per_commitment_secret" THEN {n}
    ELSE IF op = "validate_holder_commitment_tx" /\ n >= 1 THEN {n - 1}
    ELSE {}

\* The Node after a call of op on n that gave r; where the released secrets
\* are followed, those of the call are added
NodeAfterCall(nd, op, n, r) ==
    IF "released" \in DOMAIN nd
    THEN [nd EXCEPT !.released = @ \cup ReleasedBy(op, n, r.rc)]
    ELSE NodeAfter(nd, op, r.rc, r.es)

\* The chain follower of the Node, before it is started
NoFollower == [state |-> "disconnected"]

\* The callers of one channel
Threads == {1, 2}
NoCall == [op |-> "none", n |-> 0, point |-> 0, secret |-> 0]
NoThreads ==
    [lock |-> 0,
     pc |-> [p \in Threads |-> "idle"],
     call |-> [p \in Threads |-> NoCall],
     res |-> [p \in Threads |-> Res(EnforcementState_new, "ok", {})],
     serial |-> EnforcementState_new]

Init ==
    /\ enforcement_state = EnforcementState_new
    /\ last = [op |-> "ready_channel", n |-> 0, rc |-> "ok", out |-> {},
               persist_failed |-> FALSE, raw_tx_differs |-> FALSE, old_secret |-> 0]
    /\ repeated = FALSE
    /\ closed_ok = FALSE
    /\ holder_ok = -1
    /\ slot = "ready"
    /\ threads = NoThreads
    /\ node = NoNode
    /\ follower = NoFollower

\* What a host supplies as the raw transaction and its witness scripts for
\* commitment number n: the well-formed transaction for the values of vps,
\* and ones that are off in the version, in the commitment number that
\* locktime and sequence encode, or in the number of witness scripts.
HostTxs(type, n, point, vps) ==
    {[tx |-> CommitmentTx(type, 2, n, point, vp[1], vp[2]), witscripts_match |-> TRUE] :
        vp \in vps}
    \cup {[tx |-> CommitmentTx(type, 3, n, point, 1, 1), witscripts_match |-> TRUE],
          [tx |-> CommitmentTx(type, 2, WrapU64(n + 1), point, 1, 1),
           witscripts_match |-> TRUE],
          [tx |-> CommitmentTx(type, 2, n, point, 1, 1), witscripts_match |-> FALSE]}

HolderPointOf(n) == keys_get_per_commitment_point(INITIAL_COMMITMENT_NUMBER - n).num

\* The persister's answers worth telling apart for a call that gives r when
\* update_channel succeeds: only a call that is Ok then reached it.
PersistAnswers(r) == IF r.rc = "ok" THEN BOOLEAN ELSE {TRUE}

\* One call: op on commitment number n gave r, with the persister answering
\* persist_ok; raw_tx_differs for a call given a raw commitment transaction,
\* old_secret for a revocation; the counters are followed up to cap.
CallWith(op, n, r, persist_ok, raw_tx_differs, old_secret, cap) ==
    /\ slot = "ready"
    /\ slot' = slot
    /\ threads' = threads
    /\ node' = NodeAfterCall(node, op, n, r)
    /\ follower' = follower
    /\ r.es.next_holder_commit_num <= cap
    /\ r.es.next_counterparty_commit_num <= cap
    /\ enforcement_state' = r.es
    /\ last' = [op |-> op, n |-> n, rc |-> r.rc, out |-> r.out,
                persist_failed |-> ~persist_ok, raw_tx_differs |-> raw_tx_differs,
                old_secret |-> old_secret]
    /\ closed_ok' = (closed_ok \/ (op = "sign_mutual_close_tx" /\ r.rc = "ok"))
    /\ holder_ok' = IF op = "validate_holder_commitment_tx" /\ r.rc = "ok"
                    THEN n ELSE holder_ok

\* One call that is given a raw commitment transaction
CallOnTx(op, n, r, persist_ok, raw_tx_differs, cap) ==
    CallWith(op, n, r, persist_ok, raw_tx_differs, 0, cap)

\* One call that is given no raw commitment transaction
Call(op, n, r, persist_ok, cap) == CallOnTx(op, n, r, persist_ok, FALSE, cap)

\* The raw transaction differs from the counterparty commitment rebuilt from
\* the point, the commitment number and the values of its outputs.
CounterpartyTxDiffers(tx, point, n) ==
    LET info == make_info(TRUE, tx) IN
    tx # make_counterparty_commitment_tx(point, n, info.to_countersigner_value_sat,
                                         info.to_broadcaster_value_sat)

\* The raw transaction differs from the holder commitment rebuilt from the
\* commitment number and the values of its outputs.
HolderTxDiffers(tx, n) ==
    LET info == make_info(FALSE, tx) IN
    tx # make_holder_commitment_tx(PublicKey(HolderPointOf(n)), n,
                                   info.to_broadcaster_value_sat,
                                   info.to_countersigner_value_sat)

SignCounterpartyCommitmentTx(cap, vps) ==
    \E n \in CommitNums(cap), point \in Points :
    \E h \in HostTxs("counterparty", n, point, vps) :
    \E r1 \in {sign_counterparty_commitment_tx(enforcement_state, h.tx,
                                               h.witscripts_match, point, n, TRUE)} :
    \E persist_ok \in PersistAnswers(r1) :
    \E r \in {IF persist_ok THEN r1
              ELSE sign_counterparty_commitment_tx(enforcement_state, h.tx,
                                                   h.witscripts_match, point, n, FALSE)} :
        /\ CallOnTx("sign_counterparty_commitment_tx", n, r, persist_ok,
                    CounterpartyTxDiffers(h.tx, point, n), cap)
        /\ repeated' = /\ last.op = "sign_counterparty_commitment_tx"
                       /\ last.rc = "ok"
                       /\ last.n = n
                       /\ last.out = {Signature(h.tx)}
                       /\ h.witscripts_match

ValidateHolderCommitmentTx(cap, vps) ==
    \E n \in CommitNums(cap), sig_ok \in BOOLEAN :
    \E h \in HostTxs("holder", n, HolderPointOf(n), vps) :
    \E r1 \in {validate_holder_commitment_tx(enforcement_state, h.tx,
                                             h.witscripts_match, n, sig_ok, TRUE)} :
    \E persist_ok \in PersistAnswers(r1) :
    \E r \in {IF persist_ok THEN r1
              ELSE validate_holder_commitment_tx(enforcement_state, h.tx,
                                                 h.witscripts_match, n, sig_ok, FALSE)} :
        /\ CallOnTx("validate_holder_commitment_tx", n, r, persist_ok,
                    HolderTxDiffers(h.tx, n), cap)
        /\ repeated' = FALSE

ValidateCounterpartyRevocation(cap) ==
    \E revoke_num \in CommitNums(cap), old_secret \in Secrets :
    \E r1 \in {validate_counterparty_revocation(enforcement_state, revoke_num,
                                                old_secret, TRUE)} :
    \E persist_ok \in PersistAnswers(r1) :
    \E r \in {IF persist_ok THEN r1
              ELSE validate_counterparty_revocation(enforcement_state, revoke_num,
                                                    old_secret, FALSE)} :
        /\ CallWith("validate_counterparty_revocation", revoke_num, r, persist_ok,
                    FALSE, old_secret, cap)
        /\ repeated' = FALSE

SignHolderCommitmentTx(cap, vps) ==
    \E n \in CommitNums(cap) :
    \E h \in HostTxs("holder", n, HolderPointOf(n), vps) :
    \E r1 \in {sign_holder_commitment_tx(enforcement_state, h.tx, h.witscripts_match,
                                         n, TRUE)} :
    \E persist_ok \in PersistAnswers(r1) :
    \E r \in {IF persist_ok THEN r1
              ELSE sign_holder_commitment_tx(enforcement_state, h.tx,
                                             h.witscripts_match, n, FALSE)} :
        /\ CallOnTx("sign_holder_commitment_tx", n, r, persist_ok,
                    HolderTxDiffers(h.tx, n), cap)
        /\ repeated' = FALSE

SignMutualCloseTx(cap) ==
    \E vp \in FewValuePairs :
    \E r1 \in {sign_mutual_close_tx(enforcement_state,
                                    CommitmentTx("close", 2, 0, 0, vp[1], vp[2]), TRUE)} :
    \E persist_ok \in PersistAnswers(r1) :
    \E r \in {IF persist_ok THEN r1
              ELSE sign_mutual_close_tx(enforcement_state,
                                        CommitmentTx("close", 2, 0, 0, vp[1], vp[2]),
                                        FALSE)} :
        /\ Call("sign_mutual_close_tx", 0, r, persist_ok, cap)
        /\ repeated' = FALSE

GetPerCommitmentPoint(cap) ==
    \E n \in CommitNums(cap) :
    \E r \in {get_per_commitment_point(enforcement_state, n)} :
        /\ Call("get_per_commitment_point", n, r, TRUE, cap)
        /\ repeated' = FALSE

GetPerCommitmentSecret(cap) ==
    \E n \in CommitNums(cap), overflow_checks \in BOOLEAN :
    \E r \in {get_per_commitment_secret(enforcement_state, n, overflow_checks)} :
        /\ Call("get_per_commitment_secret", n, r, TRUE, cap)
        /\ repeated' = FALSE

\* All calls interleaved, on transactions of one admissible pair of values.
Next ==
    \/ SignCounterpartyCommitmentTx(MaxCommitNum, FewValuePairs)
    \/ ValidateHolderCommitmentTx(MaxCommitNum, FewValuePairs)
    \/ ValidateCounterpartyRevocation(MaxCommitNum)
    \/ SignHolderCommitmentTx(MaxCommitNum, FewValuePairs)
    \/ SignMutualCloseTx(MaxCommitNum)
    \/ GetPerCommitmentPoint(MaxCommitNum)
    \/ GetPerCommitmentSecret(MaxCommitNum)

Spec == Init /\ [][Next]_vars

\* The calls on the holder's commitments and the mutual close.
NextHolder ==
    \/ ValidateHolderCommitmentTx(HolderDepth, ValuePairs)
    \/ SignHolderCommitmentTx(HolderDepth, ValuePairs)
    \/ SignMutualCloseTx(HolderDepth)
    \/ GetPerCommitmentPoint(HolderDepth)
    \/ GetPerCommitmentSecret(HolderDepth)

SpecHolder == Init /\ [][NextHolder]_vars

\* The calls on the counterparty's commitments and the mutual close.
NextCounterparty ==
    \/ SignCounterpartyCommitmentTx(CounterpartyDepth, ValuePairs)
    \/ ValidateCounterpartyRevocation(CounterpartyDepth)
    \/ SignMutualCloseTx(CounterpartyDepth)

SpecCounterparty == Init /\ [][NextCounterparty]_vars

(***************************************************************************)
(* Properties of the holder's commitments.                                 *)
(***************************************************************************)
ValidatedHolder == last'.op = "validate_holder_commitment_tx"

\* C1: validate_holder_commitment_tx with commitment number N succeeds only
\* if N is next_holder_commit_num, which is 0 for the first success and the
\* previous successful N plus one afterwards; a success sets
\* next_holder_commit_num to N + 1; a call with any other N is a policy
\* failure that leaves the state unchanged.
C1_HolderCommitsInSequence ==
    [][ValidatedHolder =>
          /\ last'.rc = "ok" =>
                /\ last'.n = enforcement_state.next_holder_commit_num
                /\ last'.n = holder_ok + 1
                /\ enforcement_state'.next_holder_commit_num = last'.n + 1
          /\ last'.n # enforcement_state.next_holder_commit_num =>
                /\ IsPolicyFailure(last'.rc)
                /\ enforcement_state' = enforcement_state]_vars

\* C1, without the sequence of the successes: a success is on
\* next_holder_commit_num and advances it by one, any other number is refused.
C1_HolderCommitOnNext ==
    [][ValidatedHolder =>
          /\ last'.rc = "ok" =>
                /\ last'.n = enforcement_state.next_holder_commit_num
                /\ enforcement_state'.next_holder_commit_num = last'.n + 1
          /\ last'.n # enforcement_state.next_holder_commit_num =>
                /\ IsPolicyFailure(last'.rc)
                /\ enforcement_state' = enforcement_state]_vars

\* A validate_holder_commitment_tx succeeded on a number that is not the
\* successor of the last successful one.
C1_SkippedHolderCommit ==
    /\ last.op = "validate_holder_commitment_tx"
    /\ last.rc = "ok"
    /\ last.n = 1
    /\ enforcement_state.next_holder_commit_num = 2

SecretOf(commitment_number) ==
    keys_release_commitment_secret(INITIAL_COMMITMENT_NUMBER - commitment_number)

GotSecret == last.op = "get_per_commitment_secret"

\* C2: get_per_commitment_secret(N) returns the secret of commitment N if and
\* only if N + 2 <= next_holder_commit_num; otherwise it is a policy failure
\* and releases nothing.
C2_SecretOnlyOfRevoked ==
    GotSecret =>
        IF last.n + 2 <= enforcement_state.next_holder_commit_num
        THEN last.rc = "ok" /\ last.out = {SecretOf(last.n)}
        ELSE last.rc = "policy" /\ last.out = {}

\* C2 on the commitment numbers whose N + 2 is a u64.
C2_SecretOnlyOfRevokedInRange ==
    GotSecret /\ last.n + 2 <= U64Max =>
        IF last.n + 2 <= enforcement_state.next_holder_commit_num
        THEN last.rc = "ok" /\ last.out = {SecretOf(last.n)}
        ELSE last.rc = "policy" /\ last.out = {}

\* A secret left the signer for a commitment that is not revoked.
C2_SecretOfUnrevoked ==
    /\ GotSecret
    /\ last.rc = "ok"
    /\ last.out # {}
    /\ last.n + 2 > enforcement_state.next_holder_commit_num

\* The holder's commitments are validated up to n, the latest.
LatestValidated(n) ==
    /\ holder_ok = n
    /\ enforcement_state.next_holder_commit_num = n + 1

\* C3 as stated: after the holder's commitments 0..3 are validated,
\* get_per_commitment_secret(2) is a policy failure; the secret of the
\* commitment right before the latest validated one is not releasable.
C3_SecretBeforeLatestRefused ==
    /\ GotSecret /\ LatestValidated(3) /\ last.n = 2 => IsPolicyFailure(last.rc)
    /\ \A n \in 1 .. HolderDepth :
          GotSecret /\ LatestValidated(n) /\ last.n = n - 1 =>
              IsPolicyFailure(last.rc) /\ last.out = {}

\* C3: with the holder's commitments validated up to N (so that
\* next_holder_commit_num = N + 1), get_per_commitment_secret(N) is a policy
\* failure that releases nothing and get_per_commitment_secret(N - 1)
\* returns the secret of N - 1: the secret of the latest validated
\* commitment is not releasable, the one right before it is.
C3_SecretOfLatestRefused ==
    \A n \in 0 .. HolderDepth :
        GotSecret /\ LatestValidated(n) =>
            /\ last.n = n => last.rc = "policy" /\ last.out = {}
            /\ last.n = n - 1 => last.rc = "ok" /\ last.out = {SecretOf(n - 1)}

\* The secret of commitment 3 is asked for, and refused, once 0..3 are
\* validated.
C3_AskedLatestSecret ==
    /\ GotSecret
    /\ LatestValidated(3)
    /\ last.n = 3
    /\ last.rc = "policy"

SignedCounterparty == last'.op = "sign_counterparty_commitment_tx"

\* The CommitmentInfo2 of the counterparty commitment a signature is on
InfoSigned(sig) ==
    LET info == make_info(TRUE, sig.body) IN
    build_counterparty_commitment_info(sig.body.point, info.to_countersigner_value_sat,
                                       info.to_broadcaster_value_sat)

\* C5: sign_counterparty_commitment_tx with commitment number N succeeds only
\* if N = next_counterparty_commit_num - 1, a retransmission whose
\* CommitmentInfo2 equals current_counterparty_commit_info and which leaves
\* the counter, or N = next_counterparty_commit_num, an advance after which
\* the counter is N + 1; any other N is a policy failure; the first call,
\* with N = 0, makes the counter 1.
C5_CounterpartyCommitOnNextOrRetry ==
    [][SignedCounterparty =>
          /\ last'.rc = "ok" =>
                \/ /\ last'.n + 1 = enforcement_state.next_counterparty_commit_num
                   /\ \A sig \in last'.out :
                          enforcement_state.current_counterparty_commit_info
                              = Some(InfoSigned(sig))
                   /\ enforcement_state'.next_counterparty_commit_num
                          = enforcement_state.next_counterparty_commit_num
                \/ /\ last'.n = enforcement_state.next_counterparty_commit_num
                   /\ enforcement_state'.next_counterparty_commit_num = last'.n + 1
          /\ /\ last'.n + 1 # enforcement_state.next_counterparty_commit_num
             /\ last'.n # enforcement_state.next_counterparty_commit_num
             => IsPolicyFailure(last'.rc) /\ last'.out = {}
          /\ /\ enforcement_state = EnforcementState_new
             /\ last'.n = 0
             /\ last'.rc = "ok"
             => enforcement_state'.next_counterparty_commit_num = 1]_vars

\* Commitment 1 is signed, as an advance from next_counterparty_commit_num 1.
C5_Advanced ==
    /\ last.op = "sign_counterparty_commitment_tx"
    /\ last.rc = "ok"
    /\ last.n = 1
    /\ ~repeated
    /\ enforcement_state.next_counterparty_commit_num = 2

C7_MutualCloseLatch ==
    [][/\ closed_ok
       /\ last'.op \in {"sign_counterparty_commitment_tx",
                        "validate_holder_commitment_tx"}
       => IsPolicyFailure(last'.rc)]_vars

\* A well-formed sign_counterparty_commitment_tx for the next commitment is
\* refused after a successful sign_mutual_close_tx.
C7_RefusedAfterClose ==
    /\ closed_ok
    /\ last.op = "sign_counterparty_commitment_tx"
    /\ last.n = enforcement_state.next_counterparty_commit_num
    /\ last.rc = "policy"

\* C8: an operation that returns a policy failure leaves the
\* EnforcementState as it was and returns no signature, point or secret.
C8_PolicyFailureChangesNothing ==
    [][IsPolicyFailure(last'.rc) =>
          /\ enforcement_state' = enforcement_state
          /\ last'.out = {}]_vars

\* A validate_holder_commitment_tx for the next commitment is refused (the
\* counterparty's signature does not verify) on a channel that has advanced.
C8_RefusedOnAdvancedChannel ==
    /\ last.op = "validate_holder_commitment_tx"
    /\ last.n = enforcement_state.next_holder_commit_num
    /\ last.rc = "policy"
    /\ ~closed_ok
    /\ enforcement_state.next_holder_commit_num >= 1

\* C9: when update_channel fails in an operation, the EnforcementState
\* after the call is the one before it.
C9_PersistFailureRollsBack ==
    [][last'.persist_failed => enforcement_state' = enforcement_state]_vars

\* update_channel failed in sign_mutual_close_tx and the channel is latched.
C9_LatchedWithoutPersist ==
    /\ last.op = "sign_mutual_close_tx"
    /\ last.persist_failed
    /\ last.rc = "internal"
    /\ enforcement_state.mutual_close_signed
    /\ ~closed_ok

\* C10: when update_channel fails in an operation, the operation returns an
\* internal error and no signature, point or secret.
C10_PersistFailureReleasesNothing ==
    last.persist_failed => last.rc = "internal" /\ last.out = {}

\* update_channel failed in a validate_holder_commitment_tx that had a point
\* and a secret to return.
C10_PersistFailedOnRelease ==
    /\ last.op = "validate_holder_commitment_tx"
    /\ last.n >= 1
    /\ last.persist_failed
    /\ last.rc = "internal"

(***************************************************************************)
(* The signing entry points of a Ready channel.                            *)
(***************************************************************************)
\* The raw close transactions a host supplies: the close transaction of the
\* channel for a pair of values, and one that differs from it in the version.
HostCloseTxs ==
    {build_close_tx(vp[1], vp[2]) : vp \in FewValuePairs}
    \cup {CommitmentTx("close", 3, 0, 0, 1, 1)}

\* The sweep transactions a host supplies
HostSweepTxs == {SweepTx(2, 1), SweepTx(3, 1)}

SignCounterpartyCommitmentTxPhase2(cap) ==
    \E n \in CommitNums(cap), point \in Points, vp \in FewValuePairs :
    \E overflow_checks \in BOOLEAN :
    \E r1 \in {sign_counterparty_commitment_tx_phase2(
                   enforcement_state, point, n, vp[1], vp[2], overflow_checks, TRUE)} :
    \E persist_ok \in PersistAnswers(r1) :
    \E r \in {IF persist_ok THEN r1
              ELSE sign_counterparty_commitment_tx_phase2(
                       enforcement_state, point, n, vp[1], vp[2], overflow_checks, FALSE)} :
        /\ Call("sign_counterparty_commitment_tx_phase2", n, r, persist_ok, cap)
        /\ repeated' = FALSE

SignHolderCommitmentTxPhase2(cap) ==
    \E n \in CommitNums(cap), vp \in FewValuePairs :
    \E r1 \in {sign_holder_commitment_tx_phase2(enforcement_state, n, vp[1], vp[2], TRUE)} :
    \E persist_ok \in PersistAnswers(r1) :
    \E r \in {IF persist_ok THEN r1
              ELSE sign_holder_commitment_tx_phase2(enforcement_state, n, vp[1], vp[2],
                                                    FALSE)} :
        /\ Call("sign_holder_commitment_tx_phase2", n, r, persist_ok, cap)
        /\ repeated' = FALSE

\* sign_mutual_close_tx on any raw close transaction
SignMutualCloseTxRaw(cap) ==
    \E tx \in HostCloseTxs :
    \E r1 \in {sign_mutual_close_tx(enforcement_state, tx, TRUE)} :
    \E persist_ok \in PersistAnswers(r1) :
    \E r \in {IF persist_ok THEN r1
              ELSE sign_mutual_close_tx(enforcement_state, tx, FALSE)} :
        /\ Call("sign_mutual_close_tx", 0, r, persist_ok, cap)
        /\ repeated' = FALSE

SignMutualCloseTxPhase2(cap) ==
    \E vp \in FewValuePairs :
    \E r1 \in {sign_mutual_close_tx_phase2(enforcement_state, vp[1], vp[2], TRUE)} :
    \E persist_ok \in PersistAnswers(r1) :
    \E r \in {IF persist_ok THEN r1
              ELSE sign_mutual_close_tx_phase2(enforcement_state, vp[1], vp[2], FALSE)} :
        /\ Call("sign_mutual_close_tx_phase2", 0, r, persist_ok, cap)
        /\ repeated' = FALSE

SignDelayedSweep(cap) ==
    \E n \in CommitNums(cap), tx \in HostSweepTxs :
    \E r1 \in {sign_delayed_sweep(enforcement_state, tx, n, TRUE)} :
    \E persist_ok \in PersistAnswers(r1) :
    \E r \in {IF persist_ok THEN r1
              ELSE sign_delayed_sweep(enforcement_state, tx, n, FALSE)} :
        /\ Call("sign_delayed_sweep", n, r, persist_ok, cap)
        /\ repeated' = FALSE

SignCounterpartyHtlcSweep(cap) ==
    \E point \in Points, tx \in HostSweepTxs :
    \E r1 \in {sign_counterparty_htlc_sweep(enforcement_state, tx, point, TRUE)} :
    \E persist_ok \in PersistAnswers(r1) :
    \E r \in {IF persist_ok THEN r1
              ELSE sign_counterparty_htlc_sweep(enforcement_state, tx, point, FALSE)} :
        /\ Call("sign_counterparty_htlc_sweep", 0, r, persist_ok, cap)
        /\ repeated' = FALSE

SignJusticeSweep(cap) ==
    \E revocation_secret \in Secrets, tx \in HostSweepTxs :
    \E r1 \in {sign_justice_sweep(enforcement_state, tx, revocation_secret, TRUE)} :
    \E persist_ok \in PersistAnswers(r1) :
    \E r \in {IF persist_ok THEN r1
              ELSE sign_justice_sweep(enforcement_state, tx, revocation_secret, FALSE)} :
        /\ Call("sign_justice_sweep", 0, r, persist_ok, cap)
        /\ repeated' = FALSE

\* The signing entry points, and validate_holder_commitment_tx to advance
\* the holder's side.
NextSigning ==
    \/ SignCounterpartyCommitmentTx(MaxCommitNum, FewValuePairs)
    \/ SignCounterpartyCommitmentTxPhase2(MaxCommitNum)
    \/ ValidateHolderCommitmentTx(MaxCommitNum, FewValuePairs)
    \/ SignHolderCommitmentTx(MaxCommitNum, FewValuePairs)
    \/ SignHolderCommitmentTxPhase2(MaxCommitNum)
    \/ SignMutualCloseTxRaw(MaxCommitNum)
    \/ SignMutualCloseTxPhase2(MaxCommitNum)
    \/ SignDelayedSweep(MaxCommitNum)
    \/ SignCounterpartyHtlcSweep(MaxCommitNum)
    \/ SignJusticeSweep(MaxCommitNum)

SpecSigning == Init /\ [][NextSigning]_vars

\* validate_justice_sweep (validator): the shape of a sweep
validate_justice_sweep(tx) == tx.version = 2

\* The CommitmentInfo2 of the holder commitment a signature is on
HolderInfoSigned(sig) ==
    LET info == make_info(FALSE, sig.body) IN
    build_holder_commitment_info(PublicKey(sig.body.point),
                                 info.to_broadcaster_value_sat,
                                 info.to_countersigner_value_sat)

\* The validator's check of the transaction a signature is on, in the state
\* es before the call.
ValidatorAccepts(es, sig) ==
    CASE sig.body.type = "counterparty" ->
             validate_commitment_tx(es, sig.num, sig.body.point, InfoSigned(sig))
      [] sig.body.type = "holder" ->
             /\ validate_sign_holder_commitment_tx(es, sig.num)
             /\ validate_commitment_tx(es, sig.num, PublicKey(sig.body.point),
                                       HolderInfoSigned(sig))
      [] sig.body.type = "close" ->
             sig.body = build_close_tx(sig.body.to_holder, sig.body.to_counterparty)
      [] sig.body.type = "sweep" -> validate_justice_sweep(sig.body)

\* C11: every signing entry point of a Ready channel returns a signature
\* only after the validator's check of the transaction has succeeded and
\* the channel has been persisted.
C11_SignedOnlyAfterValidation ==
    [][\A sig \in last'.out :
           sig.kind = "signature" =>
               /\ ~last'.persist_failed
               /\ ValidatorAccepts(enforcement_state, sig)]_vars

\* sign_counterparty_commitment_tx_phase2 returned a signature on a
\* commitment that sign_counterparty_commitment_tx refuses.
C11_SignedUnvalidated ==
    /\ last.op = "sign_counterparty_commitment_tx_phase2"
    /\ last.rc = "ok"
    /\ \E sig \in last.out :
           /\ sig.kind = "signature"
           /\ ~ValidatorAccepts(enforcement_state, sig)

(***************************************************************************)
(* Recomposition.                                                          *)
(***************************************************************************)
OnRawCommitmentTx ==
    last'.op \in {"sign_counterparty_commitment_tx", "validate_holder_commitment_tx",
                  "sign_holder_commitment_tx"}

\* C12: sign_counterparty_commitment_tx, validate_holder_commitment_tx and
\* sign_holder_commitment_tx given a raw commitment transaction that differs
\* in a field from the transaction rebuilt from the semantic inputs return
\* a policy failure, leave the EnforcementState unchanged and sign nothing.
C12_DifferingRawTxRefused ==
    [][OnRawCommitmentTx /\ last'.raw_tx_differs =>
          /\ IsPolicyFailure(last'.rc)
          /\ enforcement_state' = enforcement_state
          /\ last'.out = {}]_vars

\* A raw counterparty commitment transaction for the next commitment number
\* of an open channel is refused for differing from the rebuilt one.
C12_RefusedDifferingRawTx ==
    /\ last.op = "sign_counterparty_commitment_tx"
    /\ last.raw_tx_differs
    /\ last.n = enforcement_state.next_counterparty_commit_num
    /\ last.n >= 1
    /\ ~enforcement_state.mutual_close_signed
    /\ last.rc = "policy"

\* The close transaction rebuilt for the values of a raw close transaction
RebuiltCloseTx(tx) == build_close_tx(tx.to_holder, tx.to_counterparty)

\* C13: sign_mutual_close_tx returns a signature, and sets
\* mutual_close_signed, only if the raw close transaction equals the close
\* transaction rebuilt for the channel; on a raw close transaction that
\* differs mutual_close_signed stays false.
C13_CloseTxRecomposed ==
    [][last'.op = "sign_mutual_close_tx" =>
          /\ \A sig \in last'.out : sig.body = RebuiltCloseTx(sig.body)
          /\ /\ ~enforcement_state.mutual_close_signed
             /\ enforcement_state'.mutual_close_signed
             => /\ last'.rc = "ok"
                /\ \A sig \in last'.out : sig.body = RebuiltCloseTx(sig.body)]_vars

\* sign_mutual_close_tx signed a raw close transaction that differs from the
\* rebuilt one, and latched the channel.
C13_SignedDifferingCloseTx ==
    /\ last.op = "sign_mutual_close_tx"
    /\ last.rc = "ok"
    /\ \E sig \in last.out : sig.body # RebuiltCloseTx(sig.body)
    /\ enforcement_state.mutual_close_signed

(***************************************************************************)
(* Value conservation.                                                     *)
(***************************************************************************)
\* The commitment infos stored in the EnforcementState
StoredCommitInfos ==
    enforcement_state.current_holder_commit_info
        \cup enforcement_state.previous_holder_commit_info
        \cup enforcement_state.current_counterparty_commit_info
        \cup enforcement_state.previous_counterparty_commit_info

\* The signatures on commitment transactions that the last call returned
CommitmentSigs ==
    {sig \in last.out :
        sig.kind = "signature" /\ sig.body.type \in {"counterparty", "holder"}}

\* Every stored commitment info conserves the channel value with a fee in
\* the range.
C14_StoredInfosConserved == \A info2 \in StoredCommitInfos : ValueConserved(info2)

\* C14: every commitment info stored in the EnforcementState has
\* to_broadcaster + to_countersigner <= channel_value_sat with the rest in
\* [MIN_COMMIT_FEE, MAX_COMMIT_FEE], and a commitment that violates either
\* bound is never signed or recorded.
C14_ValueConserved ==
    /\ C14_StoredInfosConserved
    /\ \A sig \in CommitmentSigs : ValueConserved(InfoSigned(sig))

\* A signature was returned on a commitment whose outputs leave a fee
\* outside the range.
C14_SignedUnconserved ==
    /\ last.rc = "ok"
    /\ \E sig \in CommitmentSigs : ~ValueConserved(InfoSigned(sig))

(***************************************************************************)
(* Revocation of the counterparty's commitments.                           *)
(***************************************************************************)
Revoked == last'.op = "validate_counterparty_revocation"

\* The three counters of the EnforcementState
Counters(es) ==
    <<es.next_holder_commit_num, es.next_counterparty_commit_num,
      es.next_counterparty_revoke_num>>

\* A successful validate_counterparty_revocation is on the commitment before
\* the current one, with the secret of the stored previous point, and sets
\* next_counterparty_revoke_num to revoke_num + 1.
RevocationValidated ==
    last'.rc = "ok" =>
        /\ last'.n + 1 = enforcement_state.next_counterparty_commit_num - 1
        /\ enforcement_state.previous_counterparty_point = Some(last'.old_secret)
        /\ enforcement_state'.next_counterparty_revoke_num = last'.n + 1

\* C15: validate_counterparty_revocation(revoke_num, old_secret) succeeds
\* only if revoke_num + 1 = next_counterparty_commit_num - 1 and old_secret
\* derives to the stored previous counterparty point; on success
\* next_counterparty_revoke_num becomes revoke_num + 1 and on failure no
\* counter changes.
C15_RevocationAdvancesOnlyOnSuccess ==
    [][Revoked =>
          /\ RevocationValidated
          /\ last'.rc # "ok" => Counters(enforcement_state') = Counters(enforcement_state)]_vars

\* C15 with the failure a policy failure.
C15_RevocationRefusedChangesNothing ==
    [][Revoked =>
          /\ RevocationValidated
          /\ IsPolicyFailure(last'.rc) =>
                 Counters(enforcement_state') = Counters(enforcement_state)]_vars

\* A validate_counterparty_revocation failed and next_counterparty_revoke_num
\* is advanced past the commitment it named.
C15_FailedButAdvanced ==
    /\ last.op = "validate_counterparty_revocation"
    /\ last.rc = "internal"
    /\ enforcement_state.next_counterparty_revoke_num = last.n + 1
    /\ enforcement_state.next_counterparty_commit_num = last.n + 2

(***************************************************************************)
(* Signing the holder's commitments.                                       *)
(***************************************************************************)
\* n is the current or the previous holder commitment of es
CurrentOrPreviousHolder(es, n) ==
    \/ n = es.next_holder_commit_num - 1
    \/ n = es.next_holder_commit_num - 2

PointOf(commitment_number) ==
    keys_get_per_commitment_point(INITIAL_COMMITMENT_NUMBER - commitment_number)

\* C17: a successful validate_holder_commitment_tx at commitment number N
\* returns the per-commitment point of N + 1, with the per-commitment secret
\* of N - 1 when N >= 1 and with no secret when N = 0, and no other secret.
C17_ReturnsNextPointAndOldSecret ==
    [][/\ last'.op = "validate_holder_commitment_tx"
       /\ last'.rc = "ok"
       => last'.out = {PointOf(last'.n + 1)}
                          \cup (IF last'.n >= 1 THEN {SecretOf(last'.n - 1)} ELSE {})]_vars

\* validate_holder_commitment_tx at 2 returned the secret of 1.
C17_ReturnedOldSecret ==
    /\ last.op = "validate_holder_commitment_tx"
    /\ last.rc = "ok"
    /\ last.n = 2
    /\ SecretOf(1) \in last.out
    /\ PointOf(3) \in last.out

(***************************************************************************)
(* The channel slot: ChannelSlot::Stub before ready_channel,               *)
(* ChannelSlot::Ready after it.                                            *)
(***************************************************************************)
ChannelPublicKeys == [kind |-> "basepoints", num |-> 0, body |-> NoTx]
Nonce == [kind |-> "nonce", num |-> 0, body |-> NoTx]
Bool(b) == [kind |-> "bool", num |-> IF b THEN 1 ELSE 0, body |-> NoTx]

\* ChannelBase::get_channel_basepoints for ChannelStub
ChannelStub_get_channel_basepoints(es) == Res(es, "ok", {ChannelPublicKeys})

\* ChannelStub's get_per_commitment_point as it would be without its check
ChannelStub_get_per_commitment_point_any_num(es, commitment_number) ==
    Res(es, "ok",
        {keys_get_per_commitment_point(INITIAL_COMMITMENT_NUMBER - commitment_number)})

\* ChannelBase::get_per_commitment_point for ChannelStub
ChannelStub_get_per_commitment_point(es, commitment_number) ==
    IF commitment_number # 0
    THEN Res(es, "policy", {})
    ELSE Res(es, "ok",
             {keys_get_per_commitment_point(INITIAL_COMMITMENT_NUMBER - commitment_number)})

\* ChannelBase::get_per_commitment_secret for ChannelStub
ChannelStub_get_per_commitment_secret(es, commitment_number) == Res(es, "policy", {})

\* ChannelBase::check_future_secret for ChannelStub
ChannelStub_check_future_secret(es, commitment_number, suggested, overflow_checks) ==
    IF overflow_checks /\ OverflowsU64(INITIAL_COMMITMENT_NUMBER - commitment_number)
    THEN Res(es, "panic", {})
    ELSE Res(es, "ok",
             {Bool(suggested = keys_release_commitment_secret(
                       WrapU64(INITIAL_COMMITMENT_NUMBER - commitment_number)))})

\* ChannelBase::nonce for ChannelStub
ChannelStub_nonce(es) == Res(es, "ok", {Nonce})

\* An operation of Channel asked of a slot that is a Stub (spec.md, Stub
\* channel): a policy error.
ChannelStub_refuse(es) == Res(es, "policy", {})

\* What a call on the slot gives: the slot, the EnforcementState and the answer
SlotRes(s, r) == [slot |-> s, es |-> r.es, rc |-> r.rc, out |-> r.out]

\* new_channel: a Stub with EnforcementState::new(0) is stored for an id that
\* has no entry; for an id that has one the persister's transaction aborts
\* with "already exists" and the expect on it aborts the call.
new_channel(s, es) ==
    IF s # "none"
    THEN SlotRes(s, Res(es, "panic", {}))
    ELSE SlotRes("stub", Res(EnforcementState_new, "ok", {ChannelPublicKeys}))

\* ready_channel as it would be if it built the Channel of any slot anew
ready_channel_replacing(s, es) ==
    IF s = "none"
    THEN SlotRes(s, Res(es, "invalid_argument", {}))
    ELSE SlotRes("ready", Res(EnforcementState_new, "ok", {}))

\* ready_channel (spec.md, ChannelSlot and Lifecycle): the Stub is replaced in
\* place by a Ready channel, once; a slot that is not a Stub is left as it is.
ready_channel(s, es) ==
    IF s = "stub"
    THEN SlotRes("ready", Res(EnforcementState_new, "ok", {}))
    ELSE SlotRes(s, Res(es, "invalid_argument", {}))

\* The signing operations of a channel
SigningOps ==
    {"sign_counterparty_commitment_tx", "sign_counterparty_commitment_tx_phase2",
     "validate_holder_commitment_tx", "validate_counterparty_revocation",
     "sign_holder_commitment_tx", "sign_holder_commitment_tx_phase2",
     "sign_mutual_close_tx", "sign_mutual_close_tx_phase2",
     "sign_delayed_sweep", "sign_counterparty_htlc_sweep", "sign_justice_sweep"}

\* One call on the slot: op on commitment number n gave r
SlotCall(op, n, r) ==
    /\ slot' = r.slot
    /\ enforcement_state' = r.es
    /\ last' = [op |-> op, n |-> n, rc |-> r.rc, out |-> r.out,
                persist_failed |-> FALSE, raw_tx_differs |-> FALSE,
                old_secret |-> 0]
    /\ node' = NodeAfter(node, op, r.rc, r.es)
    /\ UNCHANGED <<repeated, closed_ok, holder_ok, threads, follower>>

\* One call on a slot that is a Stub
StubCall(op, n, r) ==
    /\ slot = "stub"
    /\ SlotCall(op, n, SlotRes(slot, r))

NewChannel ==
    \E r \in {new_channel(slot, enforcement_state)} : SlotCall("new_channel", 0, r)

ReadyChannel ==
    \E r \in {ready_channel(slot, enforcement_state)} : SlotCall("ready_channel", 0, r)

StubGetChannelBasepoints ==
    \E r \in {ChannelStub_get_channel_basepoints(enforcement_state)} :
        StubCall("get_channel_basepoints", 0, r)

StubGetPerCommitmentPoint ==
    \E n \in CommitNums(MaxCommitNum) :
    \E r \in {ChannelStub_get_per_commitment_point(enforcement_state, n)} :
        StubCall("get_per_commitment_point", n, r)

StubGetPerCommitmentSecret ==
    \E n \in CommitNums(MaxCommitNum) :
    \E r \in {ChannelStub_get_per_commitment_secret(enforcement_state, n)} :
        StubCall("get_per_commitment_secret", n, r)

StubCheckFutureSecret ==
    \E n \in CommitNums(MaxCommitNum), overflow_checks \in BOOLEAN :
    \E suggested \in {keys_release_commitment_secret(INITIAL_COMMITMENT_NUMBER - i) :
                          i \in 0 .. 1} :
    \E r \in {ChannelStub_check_future_secret(enforcement_state, n, suggested,
                                              overflow_checks)} :
        StubCall("check_future_secret", n, r)

StubNonce ==
    \E r \in {ChannelStub_nonce(enforcement_state)} : StubCall("nonce", 0, r)

StubSign ==
    \E op \in SigningOps, n \in CommitNums(MaxCommitNum) :
    \E r \in {ChannelStub_refuse(enforcement_state)} : StubCall(op, n, r)

InitSlot ==
    /\ enforcement_state = EnforcementState_new
    /\ last = [op |-> "node", n |-> 0, rc |-> "ok", out |-> {},
               persist_failed |-> FALSE, raw_tx_differs |-> FALSE, old_secret |-> 0]
    /\ repeated = FALSE
    /\ closed_ok = FALSE
    /\ holder_ok = -1
    /\ slot = "none"
    /\ threads = NoThreads
    /\ node = NoNode
    /\ follower = NoFollower

\* The life of one slot: the calls on the Stub, then calls on the Ready channel
NextSlot ==
    \/ NewChannel
    \/ ReadyChannel
    \/ StubGetChannelBasepoints
    \/ StubGetPerCommitmentPoint
    \/ StubGetPerCommitmentSecret
    \/ StubCheckFutureSecret
    \/ StubNonce
    \/ StubSign
    \/ SignCounterpartyCommitmentTx(MaxCommitNum, FewValuePairs)
    \/ ValidateCounterpartyRevocation(MaxCommitNum)
    \/ SignMutualCloseTx(MaxCommitNum)

SpecSlot == InitSlot /\ [][NextSlot]_vars

OnStub == slot = "stub" /\ last.op # "new_channel"

\* C18: while a channel slot is a Stub, get_per_commitment_point succeeds only
\* for commitment number 0, get_per_commitment_secret fails with a policy
\* error for every commitment number, no signing operation yields a
\* signature, and only check_future_secret and nonce queries are otherwise
\* answered.
C18_StubAnswersOnlyPointZeroFutureSecretNonce ==
    OnStub =>
        /\ (last.op = "get_per_commitment_point" /\ last.rc = "ok" => last.n = 0)
        /\ (last.op = "get_per_commitment_secret" => last.rc = "policy" /\ last.out = {})
        /\ \A o \in last.out : o.kind # "signature"
        /\ (last.rc = "ok" =>
                last.op \in {"get_per_commitment_point", "check_future_secret", "nonce"})

\* C18 as the code has it: the Stub answers get_channel_basepoints as well.
C18_StubAnswersAlsoBasepoints ==
    OnStub =>
        /\ (last.op = "get_per_commitment_point" /\ last.rc = "ok" => last.n = 0)
        /\ (last.op = "get_per_commitment_point" /\ last.n = 0 =>
                last.rc = "ok" /\ last.out = {PointOf(0)})
        /\ (last.op = "get_per_commitment_secret" => last.rc = "policy" /\ last.out = {})
        /\ \A o \in last.out : o.kind \notin {"signature", "secret"}
        /\ (last.op \in SigningOps => last.rc # "ok")
        /\ (last.rc = "ok" =>
                last.op \in {"get_per_commitment_point", "check_future_secret", "nonce",
                             "get_channel_basepoints"})

\* a Stub has refused the per-commitment point of a commitment number other
\* than 0
C18_StubRefusedLaterPoint ==
    /\ OnStub
    /\ last.op = "get_per_commitment_point"
    /\ last.n # 0
    /\ last.rc = "policy"

\* C19: a slot created by new_channel starts as a Stub, becomes Ready by
\* ready_channel, and once Ready is never a Stub again; ready_channel on a
\* slot that is already Ready leaves its EnforcementState as it is.
C19_StubToReadyOnce ==
    [][/\ (slot = "none" /\ slot' # "none" => slot' = "stub" /\ last'.op = "new_channel")
       /\ (slot = "stub" /\ slot' # "stub" => slot' = "ready" /\ last'.op = "ready_channel")
       /\ (slot = "ready" => slot' = "ready")
       /\ (slot = "ready" /\ last'.op = "ready_channel" =>
               enforcement_state' = enforcement_state)]_vars

\* ready_channel was called on a Ready channel that has signed a counterparty
\* commitment, and the channel still has its counters
C19_SecondReadyChannel ==
    /\ slot = "ready"
    /\ last.op = "ready_channel"
    /\ last.rc # "ok"
    /\ enforcement_state.next_counterparty_commit_num >= 1

(***************************************************************************)
(* Callers of one Ready channel.  The slot is behind a mutex; a call locks *)
(* it, runs the method of Channel on the guarded value and unlocks on      *)
(* return.  A method that takes &mut self validates, advances the          *)
(* EnforcementState and persists, in that order.                           *)
(***************************************************************************)
\* slot.lock() as it would be without the mutex
slot_lock_unguarded(holder) == TRUE

\* slot.lock(): the mutex of the slot is given to one caller at a time
slot_lock(holder) == holder = 0

\* What a caller asks for
ChannelCalls ==
    {[op |-> "sign_counterparty_commitment_tx", n |-> n, point |-> point, secret |-> 0] :
        n \in 0 .. MaxCommitNum, point \in Points}
    \cup {[op |-> "validate_counterparty_revocation", n |-> n, point |-> 0,
           secret |-> secret] : n \in 0 .. MaxCommitNum, secret \in Secrets}
    \cup {[op |-> "sign_mutual_close_tx", n |-> 0, point |-> 0, secret |-> 0]}

\* The method of Channel that the call runs, on the EnforcementState es
ChannelMethod(call, es, persist_ok) ==
    CASE call.op = "sign_counterparty_commitment_tx" ->
            sign_counterparty_commitment_tx(
                es, make_counterparty_commitment_tx(call.point, call.n, 1, 1), TRUE,
                call.point, call.n, persist_ok)
      [] call.op = "validate_counterparty_revocation" ->
            validate_counterparty_revocation(es, call.n, call.secret, persist_ok)
      [] OTHER -> sign_mutual_close_tx(es, build_close_tx(1, 1), persist_ok)

\* The caller's call has returned r
Returned(p, r, persist_ok) ==
    /\ last' = [op |-> threads.call[p].op, n |-> threads.call[p].n, rc |-> r.rc,
                out |-> r.out, persist_failed |-> ~persist_ok,
                raw_tx_differs |-> FALSE, old_secret |-> threads.call[p].secret]
    /\ closed_ok' = (closed_ok \/ (threads.call[p].op = "sign_mutual_close_tx"
                                   /\ r.rc = "ok"))
    /\ repeated' = FALSE
    /\ UNCHANGED <<holder_ok, slot, node, follower>>

\* A caller arrives with its call
ThreadCall(p) ==
    /\ slot = "ready"
    /\ threads.pc[p] = "idle"
    /\ \E call \in ChannelCalls :
        threads' = [threads EXCEPT !.pc[p] = "waiting", !.call[p] = call]
    /\ UNCHANGED <<enforcement_state, last, repeated, closed_ok, holder_ok, slot,
                 node, follower>>

\* The caller is given the mutex of the slot
ThreadLock(p) ==
    /\ threads.pc[p] = "waiting"
    /\ slot_lock(threads.lock)
    /\ threads' = [threads EXCEPT !.pc[p] = "locked", !.lock = p]
    /\ UNCHANGED <<enforcement_state, last, repeated, closed_ok, holder_ok, slot,
                 node, follower>>

\* The method validates; a refused call returns and unlocks
ThreadValidate(p) ==
    /\ threads.pc[p] = "locked"
    /\ \E r \in {ChannelMethod(threads.call[p], enforcement_state, TRUE)} :
        IF r.rc = "ok"
        THEN /\ r.es.next_counterparty_commit_num <= MaxCommitNum
             /\ threads' = [threads EXCEPT !.pc[p] = "validated", !.res[p] = r]
             /\ UNCHANGED <<enforcement_state, last, repeated, closed_ok, holder_ok, slot,
                 node, follower>>
        ELSE /\ threads' = [threads EXCEPT !.pc[p] = "idle", !.lock = 0,
                                           !.call[p] = NoCall,
                                           !.serial = enforcement_state]
             /\ Returned(p, r, TRUE)
             /\ UNCHANGED enforcement_state

\* The method advances the EnforcementState
ThreadAdvance(p) ==
    /\ threads.pc[p] = "validated"
    /\ enforcement_state' = threads.res[p].es
    /\ threads' = [threads EXCEPT !.pc[p] = "advanced"]
    /\ UNCHANGED <<last, repeated, closed_ok, holder_ok, slot, node, follower>>

\* The method persists, returns and unlocks
ThreadPersist(p) ==
    /\ threads.pc[p] = "advanced"
    /\ \E persist_ok \in BOOLEAN :
       \E r \in {persist(enforcement_state, persist_ok, threads.res[p].out)} :
        /\ Returned(p, r, persist_ok)
        /\ threads' = [threads EXCEPT !.pc[p] = "idle", !.lock = 0,
                                      !.call[p] = NoCall, !.res[p] = NoThreads.res[p],
                                      !.serial = enforcement_state]
    /\ UNCHANGED enforcement_state

NextThreads ==
    \/ \E p \in Threads : ThreadCall(p)
    \/ \E p \in Threads : ThreadLock(p)
    \/ \E p \in Threads : ThreadValidate(p)
    \/ \E p \in Threads : ThreadAdvance(p)
    \/ \E p \in Threads : ThreadPersist(p)

SpecThreads == Init /\ [][NextThreads]_vars

\* the callers that are in a method of the channel
InMethod == {p \in Threads : threads.pc[p] \in {"locked", "validated", "advanced"}}

\* C20: the operations on one channel are mutually exclusive: while one call
\* validates, advances and persists, no other call on the channel takes a
\* step, and what each call does and returns is what it does and returns when
\* the calls run one after the other in the order they return.
C20_CallsAreSerial ==
    [][/\ Cardinality(InMethod) <= 1
       /\ \A p \in InMethod : \A q \in Threads \ {p} :
            threads'.pc[q] \in {threads.pc[q], "waiting"}
       /\ \A p \in InMethod :
            threads'.pc[p] = "idle" =>
                \E persist_ok \in BOOLEAN :
                    LET r == ChannelMethod(threads.call[p], threads.serial, persist_ok) IN
                    /\ enforcement_state' = r.es
                    /\ last'.rc = r.rc
                    /\ last'.out = r.out]_vars

\* one caller has advanced the EnforcementState and not yet persisted it,
\* while the other waits with its call
C20_WaitsForAdvancedCall ==
    \E p \in Threads, q \in Threads :
        /\ threads.pc[p] = "advanced"
        /\ threads.pc[q] = "waiting"
        /\ enforcement_state # threads.serial

(***************************************************************************)
(* The chain follower.  A block is its hash, a number; prev[b] is the      *)
(* prev_blockhash of block b, 0 for the first block.  The block source     *)
(* has a best chain, source[h + 1] being the hash at height h, which       *)
(* grows and reorganizes; it gives every block it has ever had by hash.    *)
(* The tracker has the headers it was given, its tip last.                 *)
(***************************************************************************)
MaxHeight == 2
MaxBlocks == 4

\* the other variables, which the follower leaves alone
channel_vars == <<enforcement_state, last, repeated, closed_ok, holder_ok, slot, threads, node>>

NoStep == [act |-> "none", hash0 |-> 0, block |-> 0, reorg |-> FALSE]

InitFollower ==
    /\ enforcement_state = EnforcementState_new
    /\ last = [op |-> "ready_channel", n |-> 0, rc |-> "ok", out |-> {},
               persist_failed |-> FALSE, raw_tx_differs |-> FALSE, old_secret |-> 0]
    /\ repeated = FALSE
    /\ closed_ok = FALSE
    /\ holder_ok = -1
    /\ slot = "ready"
    /\ threads = NoThreads
    /\ node = NoNode
    /\ follower = [state |-> "disconnected", client |-> None, pc |-> "update",
                   height0 |-> 0, hash0 |-> 0, hash |-> 0, source |-> <<1>>,
                   prev |-> <<0>>, tracker |-> <<1>>, did |-> NoStep]

\* client.get_block_hash(height): Option<BlockHash>
get_block_hash(source, height) ==
    IF height + 1 <= Len(source) THEN Some(source[height + 1]) ELSE None

\* tracker.height() and tracker.tip().block_hash()
tracker_height(tracker) == Len(tracker) - 1
tracker_tip(tracker) == tracker[Len(tracker)]

\* ChainTracker::add_block (spec.md 6, chain tracker): the header goes on the
\* tip it names as its prev_blockhash
tracker_add_block(tracker, hash, prev_blockhash) ==
    IF prev_blockhash = tracker_tip(tracker)
    THEN [rv |-> "ok", tracker |-> Append(tracker, hash)]
    ELSE [rv |-> "err", tracker |-> tracker]

\* ChainTracker::remove_block (spec.md 6, chain tracker): the tip is removed
tracker_remove_block(tracker) ==
    IF Len(tracker) > 1
    THEN [rv |-> "ok", tracker |-> SubSeq(tracker, 1, Len(tracker) - 1)]
    ELSE [rv |-> "err", tracker |-> tracker]

\* "Is the new block on top of our current tip?" as it would be if the
\* answer were always yes
is_reorg_never(prev_blockhash, hash0) == FALSE

\* "Is the new block on top of our current tip?": block.header.prev_blockhash != hash0
is_reorg(prev_blockhash, hash0) == prev_blockhash # hash0

\* A step of the follower or of its block source
FollowerStep(f) ==
    /\ follower' = f
    /\ UNCHANGED channel_vars

\* What the follower did in the update that has ended
Did(act, reorg) ==
    [act |-> act, hash0 |-> follower.hash0, block |-> follower.hash, reorg |-> reorg]

\* The Err branch of run() as it would be if it kept the client
Disconnected_keeping_client ==
    [follower EXCEPT !.state = "disconnected", !.pc = "update",
                     !.did = Did("error", FALSE)]

\* An Err of the client ends the update: run() drops the client
Disconnected ==
    [follower EXCEPT !.state = "disconnected", !.client = None, !.pc = "update",
                     !.did = Did("error", FALSE)]

\* update() in State::Disconnected as it would be if it did not keep the
\* client it made
Connected_without_client ==
    [follower EXCEPT !.state = "scanning", !.did = [NoStep EXCEPT !.act = "connect"]]

\* update() in State::Disconnected, with a client made: the client is kept
\* and the state is Scanning
Connected ==
    [follower EXCEPT !.state = "scanning", !.client = Some("client"),
                     !.did = [NoStep EXCEPT !.act = "connect"]]

\* The block source finds a block on its best chain
SourceMine ==
    /\ Len(follower.prev) < MaxBlocks
    /\ Len(follower.source) <= MaxHeight
    /\ FollowerStep([follower EXCEPT
           !.source = Append(follower.source, Len(follower.prev) + 1),
           !.prev = Append(follower.prev, follower.source[Len(follower.source)])])

\* The block source takes the tip off its best chain
SourceReorg ==
    /\ Len(follower.source) > 1
    /\ FollowerStep([follower EXCEPT
           !.source = SubSeq(follower.source, 1, Len(follower.source) - 1)])

\* ChainFollower::update, State::Disconnected
FollowerConnect ==
    /\ follower.pc = "update"
    /\ follower.state = "disconnected"
    /\ \E client_ok \in BOOLEAN :
        FollowerStep(IF client_ok
                     THEN Connected
                     ELSE [Disconnected EXCEPT !.did = [NoStep EXCEPT !.act = "error"]])

\* ChainFollower::advance: "Fetch the current tip from the tracker"
AdvanceReadTip ==
    /\ follower.pc = "update"
    /\ follower.state # "disconnected"
    /\ FollowerStep([follower EXCEPT
           !.pc = "next_hash",
           !.height0 = tracker_height(follower.tracker),
           !.hash0 = tracker_tip(follower.tracker),
           !.hash = 0,
           !.did = NoStep])

\* ChainFollower::advance: "Fetch the next block hash from bitcoind"
AdvanceNextHash ==
    /\ follower.pc = "next_hash"
    /\ \E client_ok \in BOOLEAN :
       \E answer \in {get_block_hash(follower.source, follower.height0 + 1)} :
        FollowerStep(
            IF ~client_ok THEN Disconnected
            ELSE IF answer = None THEN [follower EXCEPT !.pc = "check_hash"]
            ELSE [follower EXCEPT !.pc = "get_block", !.state = "scanning",
                                  !.hash = CHOOSE h \in answer : TRUE])

\* ChainFollower::advance: "No new block, confirm that the current block
\* still matches"
AdvanceCheckHash ==
    /\ follower.pc = "check_hash"
    /\ \E client_ok \in BOOLEAN :
       \E answer \in {get_block_hash(follower.source, follower.height0)} :
        FollowerStep(
            IF ~client_ok THEN Disconnected
            ELSE IF answer # Some(follower.hash0) THEN [follower EXCEPT !.pc = "remove_block"]
            ELSE [follower EXCEPT !.pc = "update", !.state = "synced",
                                  !.did = Did("pause", FALSE)])

\* ChainFollower::advance: "Fetch the next block from bitcoind", and add it
\* if it is on top of the tip
AdvanceGetBlock ==
    /\ follower.pc = "get_block"
    /\ \E client_ok \in BOOLEAN :
       \E prev_blockhash \in {follower.prev[follower.hash]} :
       \E added \in {tracker_add_block(follower.tracker, follower.hash, prev_blockhash)} :
        FollowerStep(
            IF ~client_ok THEN Disconnected
            ELSE IF is_reorg(prev_blockhash, follower.hash0)
            THEN [follower EXCEPT !.pc = "remove_block"]
            ELSE IF added.rv # "ok" THEN [follower EXCEPT !.pc = "panic"]
            ELSE [follower EXCEPT !.pc = "update", !.tracker = added.tracker,
                                  !.did = Did("add", FALSE)])

\* ChainFollower::remove_block
FollowerRemoveBlock ==
    /\ follower.pc = "remove_block"
    /\ \E client_ok \in BOOLEAN :
       \E removed \in {tracker_remove_block(follower.tracker)} :
        FollowerStep(
            IF ~client_ok THEN Disconnected
            ELSE IF removed.rv # "ok" THEN [follower EXCEPT !.pc = "panic"]
            ELSE [follower EXCEPT !.pc = "update", !.tracker = removed.tracker,
                                  !.did = Did("remove", TRUE)])

NextFollower ==
    \/ SourceMine
    \/ SourceReorg
    \/ FollowerConnect
    \/ AdvanceReadTip
    \/ AdvanceNextHash
    \/ AdvanceCheckHash
    \/ AdvanceGetBlock
    \/ FollowerRemoveBlock

SpecFollower == InitFollower /\ [][NextFollower]_vars

\* a step of the update in which the client answered
ClientAnswered ==
    /\ follower'.source = follower.source
    /\ follower' # follower
    /\ follower'.did.act # "error"

\* C22: the follower gives the tracker a fetched block only when the block's
\* prev_blockhash is the tip hash it read from the tracker in the same update;
\* when it is not, or when the block source no longer has that tip hash at the
\* tracker's height, the follower removes the tracker's tip instead and adds
\* nothing in that update.
C22_AddsOnTipElseRemoves ==
    [][/\ Len(follower'.tracker) > Len(follower.tracker) =>
            /\ follower.pc = "get_block"
            /\ follower'.tracker = Append(follower.tracker, follower.hash)
            /\ follower.prev[follower.hash] = follower.hash0
            /\ follower.hash0 = tracker_tip(follower.tracker)
       /\ Len(follower'.tracker) < Len(follower.tracker) =>
            /\ follower.pc = "remove_block"
            /\ follower.hash0 = tracker_tip(follower.tracker)
            /\ follower'.tracker = SubSeq(follower.tracker, 1, Len(follower.tracker) - 1)
       /\ follower.pc = "get_block" /\ ClientAnswered
            /\ follower.prev[follower.hash] # follower.hash0 =>
                follower'.pc = "remove_block" /\ follower'.tracker = follower.tracker
       /\ follower.pc = "check_hash" /\ ClientAnswered
            /\ get_block_hash(follower.source, follower.height0) # Some(follower.hash0) =>
                follower'.pc = "remove_block" /\ follower'.tracker = follower.tracker
       /\ follower.pc = "remove_block" /\ ClientAnswered =>
            /\ follower'.did.act = "remove"
            /\ Len(follower'.tracker) < Len(follower.tracker)]_vars

\* the follower has removed a tip that the block source had reorganized away
\* and has then added the block that replaced it
C22_AddedAfterReorg ==
    /\ follower.did.act = "add"
    /\ \E b \in 1 .. Len(follower.prev) :
        /\ b < follower.did.block
        /\ follower.prev[b] = follower.prev[follower.did.block]

(***************************************************************************)
(* build_proof.  A transaction is its txid, the outpoints its inputs       *)
(* spend and the number of its outputs; an outpoint is <<txid, vout>>.     *)
(* The transaction at place i of a block has txid i; txid 0 is a           *)
(* transaction of an earlier block.                                        *)
(***************************************************************************)
MaxTxs == 2

OutPoint(txid, vout) == <<txid, vout>>

\* PartialMerkleTree::from_txids(&txids, &matches): the txids of the block
\* with the flags of those that matched, and what extract_matches gives back
\* from it, the matched txids and their indexes
PartialMerkleTree_from_txids(txids, matches) == [txids |-> txids, matches |-> matches]
extract_matches(pmt) ==
    [m \in {i \in 1 .. Len(pmt.txids) : pmt.matches[i]} |-> pmt.txids[m]]

\* "We need to watch the outputs of this transaction in case a subsequent
\* transaction in the block spends them."
additional_watches(tx) == {OutPoint(tx.txid, vout) : vout \in 0 .. tx.output - 1}

\* the loop of build_proof as it would be without the additional watches
RECURSIVE build_proof_loop_same_watches(_, _, _, _)
build_proof_loop_same_watches(txdata, watched_txids, watched_outpoints, acc) ==
    IF txdata = <<>> THEN acc
    ELSE LET tx == Head(txdata) IN
         IF tx.txid \in watched_txids \/ \E inp \in tx.input : inp \in watched_outpoints
         THEN build_proof_loop_same_watches(
                  Tail(txdata), watched_txids, watched_outpoints,
                  [txids |-> Append(acc.txids, tx.txid),
                   matches |-> Append(acc.matches, TRUE),
                   matched_txs |-> Append(acc.matched_txs, tx)])
         ELSE build_proof_loop_same_watches(
                  Tail(txdata), watched_txids, watched_outpoints,
                  [acc EXCEPT !.txids = Append(acc.txids, tx.txid),
                              !.matches = Append(acc.matches, FALSE)])

\* the loop of build_proof over block.txdata
RECURSIVE build_proof_loop(_, _, _, _)
build_proof_loop(txdata, watched_txids, watched_outpoints, acc) ==
    IF txdata = <<>> THEN acc
    ELSE LET tx == Head(txdata) IN
         IF tx.txid \in watched_txids \/ \E inp \in tx.input : inp \in watched_outpoints
         THEN build_proof_loop(
                  Tail(txdata), watched_txids,
                  watched_outpoints \cup additional_watches(tx),
                  [txids |-> Append(acc.txids, tx.txid),
                   matches |-> Append(acc.matches, TRUE),
                   matched_txs |-> Append(acc.matched_txs, tx)])
         ELSE build_proof_loop(
                  Tail(txdata), watched_txids, watched_outpoints,
                  [acc EXCEPT !.txids = Append(acc.txids, tx.txid),
                              !.matches = Append(acc.matches, FALSE)])

\* build_proof(block, txid_watches, outpoint_watches)
build_proof(txdata, txid_watches, outpoint_watches) ==
    LET done == build_proof_loop(txdata, txid_watches, outpoint_watches,
                                 [txids |-> <<>>, matches |-> <<>>, matched_txs |-> <<>>]) IN
    IF done.matched_txs = <<>>
    THEN [txs |-> <<>>, proof |-> None]
    ELSE [txs |-> done.matched_txs,
          proof |-> Some(PartialMerkleTree_from_txids(done.txids, done.matches))]

\* The transactions that can stand at place i of a block
TxsAt(i) ==
    {[txid |-> i, input |-> {OutPoint(t, vout)}, output |-> output] :
        t \in 0 .. MaxTxs, vout \in 0 .. 1, output \in 1 .. 2}

\* The blocks of up to MaxTxs transactions
Blocks ==
    UNION {{txdata \in [1 .. n -> UNION {TxsAt(i) : i \in 1 .. n}] :
                \A i \in 1 .. n : txdata[i].txid = i} : n \in 0 .. MaxTxs}

\* A block and the forward watches of the tracker, before build_proof
InitProof ==
    /\ enforcement_state = EnforcementState_new
    /\ last = [op |-> "ready_channel", n |-> 0, rc |-> "ok", out |-> {},
               persist_failed |-> FALSE, raw_tx_differs |-> FALSE, old_secret |-> 0]
    /\ repeated = FALSE
    /\ closed_ok = FALSE
    /\ holder_ok = -1
    /\ slot = "ready"
    /\ threads = NoThreads
    /\ node = NoNode
    /\ \E txdata \in Blocks, txid_watches \in SUBSET (1 .. MaxTxs),
          outpoint_watches \in SUBSET {OutPoint(0, 0), OutPoint(0, 1)} :
        follower = [txdata |-> txdata, txid_watches |-> txid_watches,
                    outpoint_watches |-> outpoint_watches, built |-> FALSE,
                    txs |-> <<>>, proof |-> None]

BuildProof ==
    /\ ~follower.built
    /\ \E r \in {build_proof(follower.txdata, follower.txid_watches,
                             follower.outpoint_watches)} :
        follower' = [follower EXCEPT !.built = TRUE, !.txs = r.txs, !.proof = r.proof]
    /\ UNCHANGED channel_vars

NextProof == BuildProof

SpecProof == InitProof /\ [][NextProof]_vars

\* The transaction at place i of the block is watched: its txid is, or it
\* spends a watched outpoint or an output of a watched transaction before it
RECURSIVE Watched(_, _, _, _)
Watched(txdata, txid_watches, outpoint_watches, i) ==
    \/ txdata[i].txid \in txid_watches
    \/ \E inp \in txdata[i].input :
        \/ inp \in outpoint_watches
        \/ \E j \in 1 .. i - 1 :
            /\ Watched(txdata, txid_watches, outpoint_watches, j)
            /\ inp[1] = txdata[j].txid
            /\ inp[2] < txdata[j].output

WatchedPlaces ==
    {i \in 1 .. Len(follower.txdata) :
        Watched(follower.txdata, follower.txid_watches, follower.outpoint_watches, i)}

\* C23: build_proof returns, in the order of the block, exactly the
\* transactions of the block that are in the watched txid set, or spend a
\* watched outpoint, or spend an output of a transaction matched earlier in
\* the block; it returns no proof (empty list, None) if and only if no
\* transaction matches, and otherwise a partial Merkle proof whose matched
\* txids and indexes are those of the returned transactions.
C23_ProofOfWatched ==
    follower.built =>
        /\ Len(follower.txs) = Cardinality(WatchedPlaces)
        /\ \A k \in 1 .. Len(follower.txs) :
            /\ follower.txs[k].txid \in WatchedPlaces
            /\ follower.txs[k] = follower.txdata[follower.txs[k].txid]
            /\ \A l \in 1 .. k - 1 : follower.txs[l].txid < follower.txs[k].txid
        /\ (follower.proof = None <=> WatchedPlaces = {})
        /\ (follower.txs = <<>> <=> WatchedPlaces = {})
        /\ \A pmt \in follower.proof :
            /\ DOMAIN extract_matches(pmt) = WatchedPlaces
            /\ \A i \in WatchedPlaces : extract_matches(pmt)[i] = follower.txdata[i].txid

\* a transaction was returned only because it spends an output of a
\* transaction matched before it in the block
C23_MatchedBySpendingMatched ==
    /\ follower.built
    /\ Len(follower.txs) = 2
    /\ follower.txid_watches = {1}
    /\ follower.outpoint_watches = {}

(***************************************************************************)
(* The locks of a Node: the channels map, the mutex of each channel, the   *)
(* persister and the chain tracker.  Signer threads call methods of        *)
(* channels; the follower thread runs ChainFollower::advance.              *)
(***************************************************************************)
SignerThreads == {"signer1", "signer2"}
FollowerThread == "follower"
LockThreads == SignerThreads \cup {FollowerThread}
ChannelLocks == {"channel1", "channel2"}
Locks == {"channels", "persister", "tracker"} \cup ChannelLocks

\* node.get_tracker() in "Fetch the current tip from the tracker" as it
\* would be if the guard lived to the end of advance
tip_scope_kept(held) == held

\* "Confine the scope of the tracker, can't span awaits": the guard of
\* node.get_tracker() is dropped at the end of the block that reads the tip
tip_scope_end(held) == held \ {"tracker"}

\* The lock a thread at pc asks for, "none" when it asks for none
Wants(pc, channel) ==
    CASE pc = "want_channels" -> "channels"
      [] pc = "want_channel" -> channel
      [] pc = "want_persister" -> "persister"
      [] pc \in {"want_tracker", "want_tracker_again"} -> "tracker"
      [] OTHER -> "none"

InitLocks ==
    /\ enforcement_state = EnforcementState_new
    /\ last = [op |-> "ready_channel", n |-> 0, rc |-> "ok", out |-> {},
               persist_failed |-> FALSE, raw_tx_differs |-> FALSE, old_secret |-> 0]
    /\ repeated = FALSE
    /\ closed_ok = FALSE
    /\ holder_ok = -1
    /\ slot = "ready"
    /\ threads = NoThreads
    /\ follower = NoFollower
    /\ node = [allowlist |-> {},
               pc |-> [t \in LockThreads |-> "idle"],
               channel |-> [t \in LockThreads |-> "none"],
               held |-> [t \in LockThreads |-> {}]]

\* the other variables, which taking and giving locks leaves alone
lock_unchanged == <<enforcement_state, last, repeated, closed_ok, holder_ok, slot, threads, follower>>

LockFree(l) == \A t \in LockThreads : l \notin node.held[t]

\* A thread moves on without taking a lock
Goes(t, from, to, held) ==
    /\ node.pc[t] = from
    /\ node' = [node EXCEPT !.pc[t] = to, !.held[t] = held]
    /\ UNCHANGED lock_unchanged

\* A thread is given the lock it asks for
Takes(t, from, to) ==
    /\ node.pc[t] = from
    /\ LockFree(Wants(from, node.channel[t]))
    /\ node' = [node EXCEPT !.pc[t] = to,
                            !.held[t] = node.held[t] \cup {Wants(from, node.channel[t])}]
    /\ UNCHANGED lock_unchanged

\* A signer thread calls a method of a channel: Node::with_ready_channel
SignerCalls(t) ==
    /\ node.pc[t] = "idle"
    /\ \E c \in ChannelLocks :
        node' = [node EXCEPT !.pc[t] = "want_channels", !.channel[t] = c]
    /\ UNCHANGED lock_unchanged

\* the channels map is locked for the lookup of the slot
SignerLocksChannels(t) == Takes(t, "want_channels", "in_channels")
SignerFindsSlot(t) == Goes(t, "in_channels", "want_channel", node.held[t] \ {"channels"})
\* the mutex of the slot is locked for the method
SignerLocksChannel(t) == Takes(t, "want_channel", "in_channel")
\* the method validates and advances, then Channel::persist
SignerValidates(t) == Goes(t, "in_channel", "want_persister", node.held[t])
SignerLocksPersister(t) == Takes(t, "want_persister", "in_persister")
SignerPersisted(t) == Goes(t, "in_persister", "persisted", node.held[t] \ {"persister"})
SignerReturns(t) == Goes(t, "persisted", "idle", {})

\* ChainFollower::advance
FollowerAdvances == Goes(FollowerThread, "idle", "want_tracker", {})
FollowerLocksTracker == Takes(FollowerThread, "want_tracker", "read_tip")
FollowerReadsTip ==
    Goes(FollowerThread, "read_tip", "await_source", tip_scope_end(node.held[FollowerThread]))
\* the block source answers: a block to add or a tip to remove, or nothing
\* to do or an Err
FollowerGetsBlock ==
    \E to \in {"want_tracker_again", "idle"} :
        Goes(FollowerThread, "await_source", to,
             IF to = "idle" THEN {} ELSE node.held[FollowerThread])
FollowerLocksTrackerAgain == Takes(FollowerThread, "want_tracker_again", "add_block")
FollowerAddsBlock == Goes(FollowerThread, "add_block", "idle", {})

NextLocks ==
    \/ \E t \in SignerThreads : SignerCalls(t)
    \/ \E t \in SignerThreads : SignerLocksChannels(t)
    \/ \E t \in SignerThreads : SignerFindsSlot(t)
    \/ \E t \in SignerThreads : SignerLocksChannel(t)
    \/ \E t \in SignerThreads : SignerValidates(t)
    \/ \E t \in SignerThreads : SignerLocksPersister(t)
    \/ \E t \in SignerThreads : SignerPersisted(t)
    \/ \E t \in SignerThreads : SignerReturns(t)
    \/ FollowerAdvances
    \/ FollowerLocksTracker
    \/ FollowerReadsTip
    \/ FollowerGetsBlock
    \/ FollowerLocksTrackerAgain
    \/ FollowerAddsBlock

SpecLocks == InitLocks /\ [][NextLocks]_vars

\* the lock thread t waits for
Wanted(t) == Wants(node.pc[t], node.channel[t])

\* thread t waits for a lock that a thread of D holds
BlockedBy(t, D) == Wanted(t) # "none" /\ \E u \in D : Wanted(t) \in node.held[u]

\* C21: no deadlock is reachable among signer threads and the follower
\* thread: no set of threads wait for locks held within the set; a thread asks
\* for the channels map holding no lock, for a channel mutex holding no
\* channel mutex and no persister, for the persister holding at most a
\* channel mutex, and for the tracker holding no channel mutex; and the
\* follower does not hold the tracker while it waits for the block source.
C21_NoDeadlockLockOrder ==
    /\ \A D \in SUBSET LockThreads : D # {} => \E t \in D : ~BlockedBy(t, D)
    /\ \A t \in LockThreads :
        /\ Wanted(t) = "channels" => node.held[t] = {}
        /\ Wanted(t) \in ChannelLocks =>
                node.held[t] \cap (ChannelLocks \cup {"persister"}) = {}
        /\ Wanted(t) = "persister" => node.held[t] \subseteq ChannelLocks
        /\ Wanted(t) = "tracker" => node.held[t] \cap ChannelLocks = {}
        /\ Cardinality(node.held[t] \cap ChannelLocks) <= 1
    /\ node.pc[FollowerThread] = "await_source" => "tracker" \notin node.held[FollowerThread]

\* one signer thread holds the persister under its channel mutex, the other
\* waits for the persister, and the follower waits for the block source
C21_ContendedLocks ==
    /\ node.pc["signer1"] = "in_persister"
    /\ node.pc["signer2"] = "want_persister"
    /\ node.pc[FollowerThread] = "await_source"

(***************************************************************************)
(* Justice sweeps and the allowlist of the Node.  A destination is a       *)
(* script: "wallet19" is the script of the node's wallet at path 19,       *)
(* "nonwallet3" is a script of no key of the wallet.                       *)
(***************************************************************************)
Destinations == {"wallet19", "nonwallet3"}
WalletPaths == {19, 21}
Sequences == {"0", "42", "0xFFFFFFFD", "0xFFFFFFFF"}

\* the fee range of a sweep (spec.md 4.3), in the units of the amounts here
MIN_FEE == 1
MAX_FEE == 2

\* A justice sweep transaction: one output of value_sat to dest, the number
\* of its inputs and outputs, and what else the validator reads of it
JusticeSweepTx(version, lock_time, sequence, inputs, outputs, dest, value_sat) ==
    [type |-> "sweep", version |-> version, commitment_number |-> 0, point |-> 0,
     to_holder |-> value_sat, to_counterparty |-> 0,
     lock_time |-> lock_time, sequence |-> sequence, inputs |-> inputs,
     outputs |-> outputs, dest |-> dest]

\* make_test_justice_sweep_tx: version 2, locktime 0, one input of sequence
\* 0xFFFFFFFF, one output
make_test_justice_sweep_tx(dest, value_sat) ==
    JusticeSweepTx(2, 0, "0xFFFFFFFF", 1, 1, dest, value_sat)

\* The sweeps a host asks to sign: the one of the tests and the ones that
\* differ from it in one place, with the signing input, its amount and the
\* wallet path
HostJusticeSweeps ==
    LET good(dest) == make_test_justice_sweep_tx(dest, 2) IN
    {[tx |-> tx, input |-> input, amount_sat |-> amount_sat, wallet_path |-> wallet_path] :
        tx \in {good(dest) : dest \in Destinations}
               \cup {[good("wallet19") EXCEPT !.version = 3],
                     [good("wallet19") EXCEPT !.lock_time = 1],
                     [good("wallet19") EXCEPT !.sequence = "42"],
                     [good("wallet19") EXCEPT !.sequence = "0xFFFFFFFD"],
                     [good("wallet19") EXCEPT !.sequence = "0"],
                     [good("wallet19") EXCEPT !.inputs = 2],
                     [good("wallet19") EXCEPT !.outputs = 2]},
        input \in 0 .. 1, amount_sat \in 1 .. 5, wallet_path \in WalletPaths}

InitSweep ==
    /\ enforcement_state = EnforcementState_new
    /\ last = [op |-> "ready_channel", n |-> 0, rc |-> "ok", out |-> {},
               persist_failed |-> FALSE, raw_tx_differs |-> FALSE, old_secret |-> 0]
    /\ repeated = FALSE
    /\ closed_ok = FALSE
    /\ holder_ok = -1
    /\ slot = "ready"
    /\ threads = NoThreads
    /\ follower = NoFollower
    /\ node = [allowlist |-> {}, sweep |-> {}]

\* Node::add_allowlist and Node::remove_allowlist (spec.md 4.5)
AddAllowlist ==
    /\ \E dest \in Destinations :
        node' = [node EXCEPT !.allowlist = node.allowlist \cup {dest}]
    /\ UNCHANGED <<enforcement_state, last, repeated, closed_ok, holder_ok, slot,
                   threads, follower>>

RemoveAllowlist ==
    /\ \E dest \in node.allowlist :
        node' = [node EXCEPT !.allowlist = node.allowlist \ {dest}]
    /\ UNCHANGED <<enforcement_state, last, repeated, closed_ok, holder_ok, slot,
                   threads, follower>>

\* Channel::sign_justice_sweep on a sweep of the host
SignJusticeSweepTo ==
    \E call \in HostJusticeSweeps, revocation_secret \in Secrets, persist_ok \in BOOLEAN :
    \E r \in {sign_justice_sweep(enforcement_state, call.tx, revocation_secret, persist_ok)} :
        /\ enforcement_state' = r.es
        /\ last' = [op |-> "sign_justice_sweep", n |-> 0, rc |-> r.rc, out |-> r.out,
                    persist_failed |-> ~persist_ok, raw_tx_differs |-> FALSE,
                    old_secret |-> 0]
        /\ node' = [node EXCEPT !.sweep = {call}]
        /\ UNCHANGED <<repeated, closed_ok, holder_ok, slot, threads, follower>>

NextSweep ==
    \/ AddAllowlist
    \/ RemoveAllowlist
    \/ SignJusticeSweepTo

SpecSweep == InitSweep /\ [][NextSweep]_vars

\* the last call was a sign_justice_sweep that returned a signature
SweepSigned ==
    /\ last.op = "sign_justice_sweep"
    /\ last.rc = "ok"
    /\ \E o \in last.out : o.kind = "signature"

\* the destination is the script of the wallet at the path given
InWallet(call) == call.tx.dest = "wallet19" /\ call.wallet_path = 19

\* C24: sign_justice_sweep succeeds for a destination only if, at the time of
\* the call, the script is that of the node's wallet at the wallet_path given
\* or is on the node's allowlist.
C24_DestinationInWalletOrAllowlist ==
    SweepSigned =>
        \A call \in node.sweep : InWallet(call) \/ call.tx.dest \in node.allowlist

\* a sweep to a destination that is neither of the wallet nor on the
\* allowlist was signed
C24_SignedToUnknownDestination ==
    /\ SweepSigned
    /\ \E call \in node.sweep :
        /\ call.tx.dest = "nonwallet3"
        /\ node.allowlist = {}

\* the shape of a justice sweep (spec.md 4.3, validate_justice_sweep)
SweepShape(call) ==
    /\ call.tx.version = 2
    /\ call.tx.lock_time = 0
    /\ call.tx.sequence \in {"0", "0xFFFFFFFD", "0xFFFFFFFF"}
    /\ call.tx.inputs = 1
    /\ call.tx.outputs = 1
    /\ call.input = 0

\* C25: sign_justice_sweep refuses, with an error and no signature, a sweep
\* that does not have version 2, locktime 0, a sequence of 0, 0xFFFFFFFD or
\* 0xFFFFFFFF, one input, one output and signing input 0.
C25_SweepShapeChecked ==
    \A call \in node.sweep :
        last.op = "sign_justice_sweep" /\ ~SweepShape(call) =>
            last.rc # "ok" /\ last.out = {}

\* a sweep of version 3 was signed
C25_SignedBadVersion ==
    /\ SweepSigned
    /\ \E call \in node.sweep : call.tx.version = 3

\* C26: sign_justice_sweep refuses the sweep with a policy failure when the
\* output value exceeds the input amount, when the fee is below the minimum
\* or above the maximum; it signs only when the fee is in [MIN_FEE, MAX_FEE].
C26_SweepFeeInRange ==
    \A call \in node.sweep :
        last.op = "sign_justice_sweep" =>
            LET fee == call.amount_sat - call.tx.to_holder IN
            /\ SweepSigned => fee >= MIN_FEE /\ fee <= MAX_FEE
            /\ (fee < MIN_FEE \/ fee > MAX_FEE) /\ ~last.persist_failed =>
                    last.rc = "policy"

\* a sweep whose output is worth more than the input it spends was signed
C26_SignedFeeUnderflow ==
    /\ SweepSigned
    /\ \E call \in node.sweep : call.tx.to_holder > call.amount_sat

(***************************************************************************)
(* The Node with its persister: the channel from new_channel on, the       *)
(* entries that KVJsonPersister keeps of it, what restore_nodes makes of   *)
(* them, and the calls on a channel whose Node has been dropped.           *)
(***************************************************************************)
\* The most HTLCs of a holder commitment, and the most signatures given
\* with it
MaxHtlcs == 1

\* The counters of the channel are followed up to NodeCommitNum here
NodeCommitNum == MaxCommitNum - 1

\* The counterparty HTLC signatures of a call: for each, whether it verifies
HtlcSigs(n) == UNION {[1 .. k -> BOOLEAN] : k \in 0 .. n}

\* The loop over the HTLCs of the recomposed transaction from ndx on:
\* counterparty_htlc_sigs[ndx] is an indexing of a Vec, which aborts the call
\* for an index that is not below its length
RECURSIVE verify_htlc_sigs(_, _, _)
verify_htlc_sigs(ndx, num_htlcs, counterparty_htlc_sigs) ==
    IF ndx > num_htlcs THEN "ok"
    ELSE IF ndx > Len(counterparty_htlc_sigs) THEN "panic"
    ELSE IF ~counterparty_htlc_sigs[ndx] THEN "policy"
    ELSE verify_htlc_sigs(ndx + 1, num_htlcs, counterparty_htlc_sigs)

\* Channel::validate_holder_commitment_tx for a commitment with num_htlcs
\* HTLCs; sig_ok: the counterparty's commitment signature verifies
validate_holder_commitment_tx_htlcs(es, tx, witscripts_match, commitment_number, sig_ok, num_htlcs, counterparty_htlc_sigs, persist_ok) ==
    IF ~validate_holder_commitment_state(es) THEN Res(es, "policy", {})
    ELSE LET r == make_recomposed_holder_commitment_tx(
                      es, tx, witscripts_match, commitment_number) IN
    IF r.rc # "ok" THEN Res(es, r.rc, {})
    ELSE IF ~sig_ok THEN Res(es, "policy", {})
    ELSE IF get_per_commitment_point(es, commitment_number).rc # "ok"
    THEN Res(es, "policy", {})
    ELSE LET verified == verify_htlc_sigs(1, num_htlcs, counterparty_htlc_sigs) IN
    IF verified # "ok" THEN Res(es, verified, {})
    ELSE LET info2 == CHOOSE i \in r.info2 : TRUE
             set == set_next_holder_commit_num(es, commitment_number + 1, info2) IN
    IF set.rc # "ok" THEN Res(es, "policy", {})
    ELSE LET next_holder_commitment_point ==
                 get_per_commitment_point(set.es, commitment_number + 1).out
             maybe_old_secret ==
                 IF commitment_number >= 1
                 THEN get_per_commitment_secret(set.es, commitment_number - 1, FALSE).out
                 ELSE None IN
    persist(set.es, persist_ok, next_holder_commitment_point \cup maybe_old_secret)

\* Channel::get_node: self.node.upgrade().unwrap(), which aborts the call
\* when the Node has been dropped
get_node(alive) == IF alive THEN "node" ELSE "panic"

\* The methods of Channel that begin by taking the validator from
\* self.node.upgrade().unwrap()
ValidatingOps ==
    {"sign_counterparty_commitment_tx", "validate_holder_commitment_tx",
     "validate_counterparty_revocation", "sign_holder_commitment_tx",
     "sign_htlc_tx"}

\* A call of op on a channel whose Node is alive or not, where with_node is
\* what the call gives with its Node.  Without it a method that takes the
\* validator aborts at once, and sign_mutual_close_tx in persist, after it
\* has set mutual_close_signed.
call_on_node(alive, op, es, with_node) ==
    IF get_node(alive) # "panic" THEN with_node
    ELSE IF op \in ValidatingOps THEN Res(es, "panic", {})
    ELSE IF op = "sign_mutual_close_tx"
    THEN Res([es EXCEPT !.mutual_close_signed = TRUE], "panic", {})
    ELSE with_node

InitNode ==
    /\ enforcement_state = EnforcementState_new
    /\ last = [op |-> "node", n |-> 0, rc |-> "ok", out |-> {},
               persist_failed |-> FALSE, raw_tx_differs |-> FALSE, old_secret |-> 0]
    /\ repeated = FALSE
    /\ closed_ok = FALSE
    /\ holder_ok = -1
    /\ slot = "none"
    /\ threads = NoThreads
    /\ node = [allowlist |-> {}, store |-> {}, restored |-> {}, alive |-> TRUE]
    /\ follower = NoFollower

\* A step of the Node or of its persister that is no call on the channel
NodeStep(op, rc, nd) ==
    /\ node' = nd
    /\ last' = [op |-> op, n |-> 0, rc |-> rc, out |-> {},
                persist_failed |-> FALSE, raw_tx_differs |-> FALSE, old_secret |-> 0]
    /\ UNCHANGED <<enforcement_state, repeated, closed_ok, holder_ok, slot, threads,
                   follower>>

\* persister.update_channel(&node_id, &channel) on the Ready channel
UpdateChannel ==
    /\ slot = "ready"
    /\ \E r \in {KVJsonPersister_update_channel(node.store, Channel(enforcement_state))} :
           NodeStep("update_channel", r.rv,
                    [node EXCEPT !.store = r.store, !.restored = {}])

\* Node::restore_nodes on the persister
RestoreNodes ==
    /\ slot # "none"
    /\ last.op # "restore_nodes"
    /\ NodeStep("restore_nodes", "ok",
                [node EXCEPT !.restored =
                     {restore_channel(item) :
                          item \in KVJsonPersister_get_node_channels(node.store)}])

\* The last Arc of the Node is dropped; the channel is still held
DropNode ==
    /\ slot = "ready"
    /\ node.alive
    /\ NodeStep("drop_node", "ok", [node EXCEPT !.alive = FALSE, !.restored = {}])

\* validate_holder_commitment_tx on a commitment with HTLCs
ValidateHolderCommitmentTxHtlcs(cap) ==
    \E n \in 0 .. cap, sig_ok \in BOOLEAN, num_htlcs \in 0 .. MaxHtlcs :
    \E counterparty_htlc_sigs \in HtlcSigs(MaxHtlcs) :
    \E h \in {[tx |-> CommitmentTx("holder", 2, n, HolderPointOf(n), 1, 1),
               witscripts_match |-> TRUE]} :
    \E r1 \in {validate_holder_commitment_tx_htlcs(
                   enforcement_state, h.tx, h.witscripts_match, n, sig_ok,
                   num_htlcs, counterparty_htlc_sigs, TRUE)} :
    \E persist_ok \in PersistAnswers(r1) :
    \E r \in {IF persist_ok THEN r1
              ELSE validate_holder_commitment_tx_htlcs(
                       enforcement_state, h.tx, h.witscripts_match, n, sig_ok,
                       num_htlcs, counterparty_htlc_sigs, FALSE)} :
        /\ slot = "ready"
        /\ r.es.next_holder_commit_num <= cap
        /\ enforcement_state' = r.es
        /\ last' = [op |-> "validate_holder_commitment_tx", n |-> n, rc |-> r.rc,
                    out |-> r.out, persist_failed |-> ~persist_ok,
                    raw_tx_differs |-> HolderTxDiffers(h.tx, n), old_secret |-> 0]
        /\ node' = [htlcs |-> num_htlcs, sigs |-> counterparty_htlc_sigs]
        /\ holder_ok' = IF r.rc = "ok" THEN n ELSE holder_ok
        /\ repeated' = FALSE
        /\ UNCHANGED <<closed_ok, slot, threads, follower>>

\* A call on the channel after its Node has been dropped
CallWithoutNode ==
    /\ slot = "ready"
    /\ ~node.alive
    /\ \E op \in {"sign_counterparty_commitment_tx", "validate_counterparty_revocation",
                  "sign_mutual_close_tx"} :
       \E r \in {call_on_node(node.alive, op, enforcement_state,
                              Res(enforcement_state, "ok", {}))} :
           /\ enforcement_state' = r.es
           /\ last' = [op |-> op, n |-> 0, rc |-> r.rc, out |-> r.out,
                       persist_failed |-> FALSE, raw_tx_differs |-> FALSE,
                       old_secret |-> 0]
           /\ node' = NodeAfter(node, op, r.rc, r.es)
           /\ UNCHANGED <<repeated, closed_ok, holder_ok, slot, threads, follower>>

NextNode ==
    \/ (node.alive /\ NewChannel)
    \/ (node.alive /\ ReadyChannel)
    \/ UpdateChannel
    \/ RestoreNodes
    \/ DropNode
    \/ CallWithoutNode
    \/ (node.alive /\ SignCounterpartyCommitmentTx(NodeCommitNum, {<<1, 1>>}))
    \/ (node.alive /\ ValidateHolderCommitmentTx(NodeCommitNum, {<<1, 1>>}))
    \/ (node.alive /\ SignMutualCloseTx(NodeCommitNum))

SpecNode == InitNode /\ [][NextNode]_vars

\* The Ready channel when the HTLC signatures of its calls are followed
InitHtlcs ==
    /\ enforcement_state = EnforcementState_new
    /\ last = [op |-> "ready_channel", n |-> 0, rc |-> "ok", out |-> {},
               persist_failed |-> FALSE, raw_tx_differs |-> FALSE, old_secret |-> 0]
    /\ repeated = FALSE
    /\ closed_ok = FALSE
    /\ holder_ok = -1
    /\ slot = "ready"
    /\ threads = NoThreads
    /\ node = [htlcs |-> 0, sigs |-> <<>>]
    /\ follower = NoFollower

NextHtlcs ==
    \/ ValidateHolderCommitmentTxHtlcs(MaxCommitNum)
    \/ SignHolderCommitmentTx(MaxCommitNum, {<<1, 1>>})

SpecHtlcs == InitHtlcs /\ [][NextHtlcs]_vars

\* The channel as the Node holds it in memory
ChannelInMemory ==
    IF slot = "stub"
    THEN [id0 |-> ChannelStub.id0, slot |-> "stub", keys |-> ChannelStub.keys,
          setup |-> None, enforcement_state |-> EnforcementState_new]
    ELSE [id0 |-> Channel(enforcement_state).id0, slot |-> "ready",
          keys |-> Channel(enforcement_state).keys,
          setup |-> Some(Channel(enforcement_state).setup),
          enforcement_state |-> enforcement_state]

Stored == {item.entry.enforcement_state : item \in txn_get(node.store, ChannelStub.id0)}

\* C28: between the operations on a channel, the EnforcementState that the
\* persister has stored for it is the EnforcementState of the channel in
\* memory.
C28_StoredIsInMemory ==
    (slot = "ready") => (Stored = {enforcement_state})

\* C28 witness: after a call whose persist failed the stored state is behind
\* the state in memory
C28_StoredLagsAfterFailedPersist ==
    /\ slot = "ready"
    /\ last.persist_failed
    /\ last.rc = "internal"
    /\ Stored # {enforcement_state}

\* C29: a call on a channel whose Node has been dropped returns an internal
\* error, and leaves the state of the channel as it was.
C29_DroppedNodeIsInternalError ==
    [][(~node.alive /\ last'.op \in ValidatingOps \cup PersistingOps) =>
          /\ last'.rc = "internal"
          /\ enforcement_state' = enforcement_state]_vars

\* C29 witness: a call on the channel of a dropped Node has aborted
C29_AbortedWithoutNode ==
    /\ ~node.alive
    /\ last.op = "sign_counterparty_commitment_tx"
    /\ last.rc = "panic"

\* C30: validate_holder_commitment_tx given fewer counterparty HTLC
\* signatures than the commitment has HTLCs returns a policy error or an
\* internal error, as every call on a channel returns success or one of the
\* two.
C30_FewerHtlcSigsIsError ==
    /\ last.rc \in {"ok", "policy", "internal"}
    /\ (/\ last.op = "validate_holder_commitment_tx"
        /\ Len(node.sigs) < node.htlcs) => last.rc \in {"policy", "internal"}

\* C30 witness: validate_holder_commitment_tx has aborted on the signature
\* of an HTLC that it was not given
C30_AbortedOnMissingHtlcSig ==
    /\ last.op = "validate_holder_commitment_tx"
    /\ Len(node.sigs) < node.htlcs
    /\ last.rc = "panic"

(***************************************************************************)
(* The counters of the EnforcementState over every call.                   *)
(***************************************************************************)
\* The calls that advance a counter, and the mutual close that ends them
NextCounters ==
    \/ SignCounterpartyCommitmentTx(MaxCommitNum, {<<1, 1>>})
    \/ ValidateHolderCommitmentTx(MaxCommitNum, {<<1, 1>>})
    \/ ValidateCounterpartyRevocation(MaxCommitNum)
    \/ SignMutualCloseTx(MaxCommitNum)

SpecCounters == Init /\ [][NextCounters]_vars

\* The call that the step makes returned Ok
Succeeded(op) == last'.op = op /\ last'.rc = "ok"

ChannelNonces == {"nonce0", "nonce1"}

\* Sha256Hash::hash: a value that tells its input
Sha256Hash(bytes) == <<"sha256", bytes>>

\* channel_nonce_to_id as it would be hashing no byte of the nonce
channel_nonce_to_id_of_empty(nonce) == [ChannelId |-> Sha256Hash("")]

\* channel_nonce_to_id
channel_nonce_to_id(nonce) == [ChannelId |-> Sha256Hash(nonce)]

\* The Node before new_channel
InitIdentity ==
    /\ enforcement_state = EnforcementState_new
    /\ last = [op |-> "node", n |-> 0, rc |-> "ok", out |-> {},
               persist_failed |-> FALSE, raw_tx_differs |-> FALSE, old_secret |-> 0]
    /\ repeated = FALSE
    /\ closed_ok = FALSE
    /\ holder_ok = -1
    /\ slot = "none"
    /\ threads = NoThreads
    /\ node = [allowlist |-> {}, channels |-> {}, nonce |-> "", id0 |-> None,
               id |-> None, setup |-> None]
    /\ follower = NoFollower

\* A call on the Node that makes or readies the channel: r is what it does to
\* the slot, nd the Node when it succeeds
IdentityCall(op, r, nd) ==
    /\ slot' = r.slot
    /\ enforcement_state' = r.es
    /\ last' = [op |-> op, n |-> 0, rc |-> r.rc, out |-> r.out,
                persist_failed |-> FALSE, raw_tx_differs |-> FALSE, old_secret |-> 0]
    /\ node' = IF r.rc = "ok" THEN nd ELSE node
    /\ UNCHANGED <<repeated, closed_ok, holder_ok, threads, follower>>

\* Node::new_channel for a nonce (make_node_and_channel of the test): the
\* Stub has the nonce and the id0 made of it, and is stored under id0
NewChannelOfNonce ==
    \E nonce \in ChannelNonces :
    \E r \in {new_channel(slot, enforcement_state)} :
        IdentityCall("new_channel", r,
                     [node EXCEPT !.nonce = nonce,
                                  !.id0 = Some(channel_nonce_to_id(nonce)),
                                  !.channels = Some(channel_nonce_to_id(nonce))])

\* Node::ready_channel(channel_id0, opt_channel_id, setup, ..): the Channel
\* has the nonce and the id0 of the Stub, and is stored under the permanent
\* id as well when one is given
ReadyChannelWithId ==
    \E opt_channel_id \in {None, Some(channel_nonce_to_id("nonce1"))} :
    \E r \in {ready_channel(slot, enforcement_state)} :
        IdentityCall("ready_channel", r,
                     [node EXCEPT !.id = opt_channel_id,
                                  !.setup = Some(ChannelSetup),
                                  !.channels = node.channels \cup opt_channel_id])

NextIdentity ==
    \/ NewChannelOfNonce
    \/ ReadyChannelWithId
    \/ SignCounterpartyCommitmentTx(NodeCommitNum, {<<1, 1>>})
    \/ ValidateHolderCommitmentTx(NodeCommitNum, {<<1, 1>>})
    \/ SignHolderCommitmentTx(NodeCommitNum, {<<1, 1>>})
    \/ SignMutualCloseTx(NodeCommitNum)

SpecIdentity == InitIdentity /\ [][NextIdentity]_vars

InitReleased ==
    /\ enforcement_state = EnforcementState_new
    /\ last = [op |-> "ready_channel", n |-> 0, rc |-> "ok", out |-> {},
               persist_failed |-> FALSE, raw_tx_differs |-> FALSE, old_secret |-> 0]
    /\ repeated = FALSE
    /\ closed_ok = FALSE
    /\ holder_ok = -1
    /\ slot = "ready"
    /\ threads = NoThreads
    /\ node = [allowlist |-> {}, released |-> {}]
    /\ follower = NoFollower

NextReleased ==
    \/ ValidateHolderCommitmentTx(MaxCommitNum, {<<1, 1>>})
    \/ GetPerCommitmentSecret(MaxCommitNum)
    \/ SignHolderCommitmentTx(MaxCommitNum, {<<1, 1>>})
    \/ SignHolderCommitmentTxPhase2(MaxCommitNum)

SpecReleased == InitReleased /\ [][NextReleased]_vars

\* C33: no sign_holder_commitment_tx and no sign_holder_commitment_tx_phase2
\* returns a signature for a commitment number whose per-commitment secret
\* an earlier call has released.
C33_RevokedNeverSigned ==
    (/\ last.op \in {"sign_holder_commitment_tx", "sign_holder_commitment_tx_phase2"}
     /\ last.n \in node.released) => last.rc # "ok"

\* C33 witness: sign_holder_commitment_tx_phase2 has signed holder
\* commitment 0 after validate_holder_commitment_tx had returned its secret
C33_SignedRevokedPhase2 ==
    /\ last.op = "sign_holder_commitment_tx_phase2"
    /\ last.rc = "ok"
    /\ last.n = 0
    /\ 0 \in node.released
    /\ enforcement_state.next_holder_commit_num = 2

(***************************************************************************)
(* The mutual close latch over the signing entry points.                   *)
(***************************************************************************)
\* C34: where a call has returned a mutual-close signature, by
\* sign_mutual_close_tx or by sign_mutual_close_tx_phase2, the channel's
\* mutual_close_signed is true.
C34_CloseSignatureLatches ==
    (\/ closed_ok
     \/ /\ last.op \in {"sign_mutual_close_tx", "sign_mutual_close_tx_phase2"}
        /\ last.rc = "ok") => enforcement_state.mutual_close_signed

\* C34 witness: sign_mutual_close_tx_phase2 has returned a signature and
\* mutual_close_signed is false
C34_Phase2SignedUnlatched ==
    /\ last.op = "sign_mutual_close_tx_phase2"
    /\ last.rc = "ok"
    /\ last.out # {}
    /\ ~enforcement_state.mutual_close_signed

(***************************************************************************)
(* The calls that do not advance the commitment sequence.                  *)
(***************************************************************************)
\* ChannelBase::check_future_secret for Channel
check_future_secret(es, commitment_number, suggested, overflow_checks) ==
    IF overflow_checks /\ OverflowsU64(INITIAL_COMMITMENT_NUMBER - commitment_number)
    THEN Res(es, "panic", {})
    ELSE Res(es, "ok",
             {Bool(suggested = keys_release_commitment_secret(
                       WrapU64(INITIAL_COMMITMENT_NUMBER - commitment_number)))})

\* Channel::sign_htlc_tx; valid: decode_and_validate_htlc_tx and
\* validate_htlc_tx accept the transaction
sign_htlc_tx(es, tx, valid) ==
    IF ~valid THEN Res(es, "policy", {}) ELSE Res(es, "ok", {Signature(tx)})

\* Channel::sign_holder_htlc_tx: the per-commitment point is the one given
\* or that of the commitment number
sign_holder_htlc_tx(es, tx, commitment_number, opt_per_commitment_point, valid) ==
    IF opt_per_commitment_point = None
          /\ get_per_commitment_point(es, commitment_number).rc # "ok"
    THEN Res(es, "policy", {})
    ELSE sign_htlc_tx(es, tx, valid)

\* Channel::sign_counterparty_htlc_tx
sign_counterparty_htlc_tx(es, tx, valid) == sign_htlc_tx(es, tx, valid)

\* Channel::sign_channel_announcement: the signatures of the node and of the
\* funding key, with no Status
sign_channel_announcement(es) == Res(es, "ok", {Signature(NoTx)})

CheckFutureSecret(cap) ==
    \E n \in CommitNums(cap), overflow_checks \in BOOLEAN :
    \E suggested \in {keys_release_commitment_secret(INITIAL_COMMITMENT_NUMBER - i) :
                          i \in 0 .. 1} :
    \E r \in {check_future_secret(enforcement_state, n, suggested, overflow_checks)} :
        /\ Call("check_future_secret", n, r, TRUE, cap)
        /\ repeated' = FALSE

SignHolderHtlcTx(cap) ==
    \E n \in CommitNums(cap), opt_point \in {None, Some(1)}, valid \in BOOLEAN :
    \E r \in {sign_holder_htlc_tx(enforcement_state, SweepTx(2, 1), n, opt_point, valid)} :
        /\ Call("sign_holder_htlc_tx", n, r, TRUE, cap)
        /\ repeated' = FALSE

SignCounterpartyHtlcTx(cap) ==
    \E valid \in BOOLEAN :
    \E r \in {sign_counterparty_htlc_tx(enforcement_state, SweepTx(2, 1), valid)} :
        /\ Call("sign_counterparty_htlc_tx", 0, r, TRUE, cap)
        /\ repeated' = FALSE

SignChannelAnnouncement(cap) ==
    \E r \in {sign_channel_announcement(enforcement_state)} :
        /\ Call("sign_channel_announcement", 0, r, TRUE, cap)
        /\ repeated' = FALSE

\* The calls that do not advance, among calls that do
NextFrame ==
    \/ SignCounterpartyCommitmentTx(MaxCommitNum, {<<1, 1>>})
    \/ ValidateHolderCommitmentTx(MaxCommitNum, {<<1, 1>>})
    \/ SignHolderCommitmentTx(MaxCommitNum, {<<1, 1>>})
    \/ SignHolderHtlcTx(MaxCommitNum)
    \/ SignCounterpartyHtlcTx(MaxCommitNum)
    \/ SignCounterpartyCommitmentTxPhase2(MaxCommitNum)
    \/ SignHolderCommitmentTxPhase2(MaxCommitNum)
    \/ SignMutualCloseTxPhase2(MaxCommitNum)
    \/ SignDelayedSweep(MaxCommitNum)
    \/ SignCounterpartyHtlcSweep(MaxCommitNum)
    \/ SignJusticeSweep(MaxCommitNum)
    \/ SignChannelAnnouncement(MaxCommitNum)
    \/ GetPerCommitmentPoint(MaxCommitNum)
    \/ GetPerCommitmentSecret(MaxCommitNum)
    \/ CheckFutureSecret(MaxCommitNum)

SpecFrame == Init /\ [][NextFrame]_vars

NonAdvancingOps ==
    {"sign_holder_commitment_tx", "sign_holder_htlc_tx", "sign_counterparty_htlc_tx",
     "sign_delayed_sweep", "sign_counterparty_htlc_sweep", "sign_justice_sweep",
     "sign_channel_announcement", "get_per_commitment_point",
     "get_per_commitment_secret", "check_future_secret",
     "sign_counterparty_commitment_tx_phase2", "sign_holder_commitment_tx_phase2",
     "sign_mutual_close_tx_phase2"}

\* C35: a call that does not advance the commitment sequence leaves every
\* field of the EnforcementState as it was, whatever it returns.
C35_NonAdvancingLeavesState ==
    [][last'.op \in NonAdvancingOps => enforcement_state' = enforcement_state]_vars

\* C35 witness: after both commitment counters have advanced,
\* sign_holder_commitment_tx_phase2 has signed
C35_SignedOnAdvancedState ==
    /\ enforcement_state.next_holder_commit_num > 0
    /\ enforcement_state.next_counterparty_commit_num > 0
    /\ last.op = "sign_holder_commitment_tx_phase2"
    /\ last.rc = "ok"

(***************************************************************************)
(* The chain follower: its client, its state and what it does to the       *)
(* tracker.                                                                *)
(***************************************************************************)
\* The places of advance and of remove_block, which unwrap the client
InAdvance == follower.pc \in {"next_hash", "check_hash", "get_block", "remove_block"}

\* C36: the state of the follower is Disconnected exactly when it has no
\* client, and advance and remove_block run with a client only.
C36_DisconnectedIffNoClient ==
    /\ (follower.state = "disconnected") = (follower.client = None)
    /\ InAdvance => follower.client # None

\* C36 witness: the follower, with a tracker above the genesis block, has
\* lost its client on a failed request and is Disconnected
C36_DisconnectedAfterError ==
    /\ follower.state = "disconnected"
    /\ follower.client = None
    /\ follower.did.act = "error"
    /\ Len(follower.tracker) > 1

\* C38: the follower adds a block to the tracker and removes one from it
\* only in state Scanning, never in state Synced.
C38_TrackerChangesWhileScanning ==
    [][follower'.tracker # follower.tracker => follower.state = "scanning"]_vars

\* C38 witness: the follower has removed the tip from the tracker in state
\* Synced, and is Synced still
C38_RemovedWhileSynced ==
    /\ follower.did.act = "remove"
    /\ follower.state = "synced"
    /\ follower.pc = "update"

\* A step of the follower in which a request to the block source failed
RequestFailed == follower'.did.act = "error" /\ follower' # follower

\* C39: a step in which a request to the block source fails leaves the
\* follower Disconnected without a client at the start of its next update,
\* and the tracker as it was when the update began; every step of the
\* follower changes the height of the tracker by one at most.
C39_FailureLeavesTracker ==
    [][/\ RequestFailed =>
              /\ follower'.state = "disconnected"
              /\ follower'.client = None
              /\ follower'.pc = "update"
              /\ follower'.tracker = follower.tracker
              /\ InAdvance =>
                     /\ tracker_height(follower'.tracker) = follower.height0
                     /\ tracker_tip(follower'.tracker) = follower.hash0
       /\ tracker_height(follower'.tracker) - tracker_height(follower.tracker)
              \in {-1, 0, 1}]_vars

\* C39 witness: the request for the block to remove has failed, on a tracker
\* above the genesis block
C39_FailedBeforeRemove ==
    /\ follower.did.act = "error"
    /\ follower.did.hash0 = tracker_tip(follower.tracker)
    /\ get_block_hash(follower.source, follower.height0) # Some(follower.hash0)
    /\ follower.state = "disconnected"
    /\ tracker_height(follower.tracker) > 0

(***************************************************************************)
(* The follower loop under fair scheduling: run() goes on calling update() *)
(* at every tick.                                                          *)
(***************************************************************************)
FollowerActs ==
    \/ FollowerConnect
    \/ AdvanceReadTip
    \/ AdvanceNextHash
    \/ AdvanceCheckHash
    \/ AdvanceGetBlock
    \/ FollowerRemoveBlock

SpecFollowerFair == InitFollower /\ [][NextFollower]_vars /\ WF_vars(FollowerActs)

\* The follower is Synced on the best chain of the block source
SyncedOnBestChain ==
    /\ follower.state = "synced"
    /\ follower.tracker = follower.source

\* C37: unless requests to the block source go on failing for ever, the
\* follower is in the end Synced for good with the tracker on the best
\* chain that the block source has come to rest on, whatever fork the
\* tracker was on before.
C37_EventuallySynced ==
    []<><<RequestFailed>>_vars \/ <>[]SyncedOnBestChain

\* C37 witness: the follower is Synced on a best chain that has a block
\* mined after another block was taken off the chain
C37_SyncedAfterFork ==
    /\ SyncedOnBestChain
    /\ tracker_tip(follower.tracker) # Len(follower.tracker)
    /\ follower.pc = "update"

(***************************************************************************)
(* The four buckets of KVJsonPersister over the nodes of a signer: nodes,  *)
(* channels, allowlists and chain_tracker, each a set of items with one    *)
(* item for a key at most.                                                 *)
(***************************************************************************)
NodeIds == {1, 2}

\* NodeChannelId::new(node_id, channel_id), and the items of the channel
\* bucket under NodeChannelId::new_prefix(node_id)
NodeChannelId(node_id, channel_id) == <<node_id, channel_id>>
iter_prefix(bucket, node_id) == {item \in bucket : item.key[1] = node_id}

\* Bucket::remove(key)
bucket_remove(bucket, key) == bucket \ txn_get(bucket, key)

NoDb == [nodes |-> {}, channels |-> {}, allowlists |-> {}, chain_tracker |-> {}]

\* KVJsonPersister::new_node, new_chain_tracker and update_node_allowlist
KVJsonPersister_new_node(db, node_id) ==
    [db EXCEPT !.nodes = txn_set(db.nodes, node_id, "NodeEntry")]
KVJsonPersister_new_chain_tracker(db, node_id) ==
    [db EXCEPT !.chain_tracker = txn_set(db.chain_tracker, node_id, "ChainTrackerEntry")]
KVJsonPersister_update_node_allowlist(db, node_id, allowlist) ==
    [db EXCEPT !.allowlists = txn_set(db.allowlists, node_id, allowlist)]

\* KVJsonPersister::delete_node: the channels under the prefix of the node,
\* the entry of the node and the entry of its chain tracker are removed
KVJsonPersister_delete_node(db, node_id) ==
    [db EXCEPT !.channels = db.channels \ iter_prefix(db.channels, node_id),
               !.nodes = bucket_remove(db.nodes, node_id),
               !.chain_tracker = bucket_remove(db.chain_tracker, node_id)]

\* KVJsonPersister::get_nodes, get_tracker (an Option here) and
\* get_node_allowlist, which is empty for a node without an entry
KVJsonPersister_get_nodes(db) == {item.key : item \in db.nodes}
KVJsonPersister_get_tracker(db, node_id) ==
    {item.entry : item \in txn_get(db.chain_tracker, node_id)}
KVJsonPersister_get_node_allowlist(db, node_id) ==
    IF txn_get(db.allowlists, node_id) = {} THEN <<>>
    ELSE (CHOOSE item \in txn_get(db.allowlists, node_id) : TRUE).entry

InitDb ==
    /\ enforcement_state = EnforcementState_new
    /\ last = [op |-> "clear_database", n |-> 0, rc |-> "ok", out |-> {},
               persist_failed |-> FALSE, raw_tx_differs |-> FALSE, old_secret |-> 0]
    /\ repeated = FALSE
    /\ closed_ok = FALSE
    /\ holder_ok = -1
    /\ slot = "none"
    /\ threads = NoThreads
    /\ node = [allowlist |-> {}, db |-> NoDb]
    /\ follower = NoFollower

\* A call of op on the persister for node_id that leaves db
DbCall(op, node_id, db) ==
    /\ node' = [node EXCEPT !.db = db]
    /\ last' = [op |-> op, n |-> node_id, rc |-> "ok", out |-> {},
                persist_failed |-> FALSE, raw_tx_differs |-> FALSE, old_secret |-> 0]
    /\ UNCHANGED <<enforcement_state, repeated, closed_ok, holder_ok, slot, threads,
                   follower>>

\* new_node asserts that the node has no entry, new_chain_tracker that it
\* has no tracker
DbNewNode ==
    \E node_id \in NodeIds :
        /\ node_id \notin KVJsonPersister_get_nodes(node.db)
        /\ DbCall("new_node", node_id, KVJsonPersister_new_node(node.db, node_id))

DbNewChainTracker ==
    \E node_id \in KVJsonPersister_get_nodes(node.db) :
        /\ KVJsonPersister_get_tracker(node.db, node_id) = None
        /\ DbCall("new_chain_tracker", node_id,
                  KVJsonPersister_new_chain_tracker(node.db, node_id))

DbNewChannel ==
    \E node_id \in KVJsonPersister_get_nodes(node.db) :
    \E stub \in {[ChannelStub EXCEPT !.id0 = NodeChannelId(node_id, ChannelStub.id0)]} :
    \E r \in {KVJsonPersister_new_channel(node.db.channels, stub)} :
        /\ r.rv = "ok"
        /\ DbCall("new_channel", node_id, [node.db EXCEPT !.channels = r.store])

DbUpdateNodeAllowlist ==
    \E node_id \in KVJsonPersister_get_nodes(node.db) :
    \E allowlist \in {<<>>, <<"address">>} :
        DbCall("update_node_allowlist", node_id,
               KVJsonPersister_update_node_allowlist(node.db, node_id, allowlist))

DbDeleteNode ==
    \E node_id \in KVJsonPersister_get_nodes(node.db) :
        DbCall("delete_node", node_id, KVJsonPersister_delete_node(node.db, node_id))

NextDb ==
    \/ DbNewNode
    \/ DbNewChainTracker
    \/ DbNewChannel
    \/ DbUpdateNodeAllowlist
    \/ DbDeleteNode

SpecDb == InitDb /\ [][NextDb]_vars

\* C40: after delete_node of a node, get_nodes does not list it,
\* get_node_channels has no channel of it, get_tracker fails for it and
\* get_node_allowlist gives the empty list for it.
C40_DeleteNodeLeavesNothing ==
    (last.op = "delete_node") =>
        /\ last.n \notin KVJsonPersister_get_nodes(node.db)
        /\ iter_prefix(node.db.channels, last.n) = {}
        /\ KVJsonPersister_get_tracker(node.db, last.n) = None
        /\ KVJsonPersister_get_node_allowlist(node.db, last.n) = <<>>

\* C40 witness: a node that had a channel, a tracker and an allowlist has
\* been deleted, and get_node_allowlist still gives its allowlist
C40_AllowlistOutlivesNode ==
    /\ last.op = "delete_node"
    /\ last.n \notin KVJsonPersister_get_nodes(node.db)
    /\ iter_prefix(node.db.channels, last.n) = {}
    /\ KVJsonPersister_get_tracker(node.db, last.n) = None
    /\ KVJsonPersister_get_node_allowlist(node.db, last.n) = <<"address">>
====
